---- MODULE Spec2Model ----
(***************************************************************************)
(* A state-machine model of lib/kafkaClient.js (KafkaClient): the broker   *)
(* pools, the per-socket callback queue with its request timers, the       *)
(* metadata stores, the bootstrap connect operation, refreshBrokerMetadata *)
(* and close().                                                            *)
(*                                                                         *)
(* Handlers are written as operators from a state record to a state        *)
(* record, so that a handler which calls another handler synchronously     *)
(* (a callback invoked from clearCallbackQueue, close() re-entered from    *)
(* clearCallbackQueue, sendToBroker run from a ready event) is the         *)
(* composition of the two.  A handler calls another handler through Do,    *)
(* which dispatches on the handler's name.  An action of the model is one  *)
(* event-loop task: a call made by the user of the client, a socket event, *)
(* a timer, a deferred callback.                                           *)
(***************************************************************************)
EXTENDS Integers, Sequences, FiniteSets, TLC

VARIABLES
  socks,               \* every socket createBroker made, indexed by socketId
  brokers,             \* this.brokers: host:port -> socket, in insertion order
  longpollingBrokers,  \* this.longpollingBrokers
  cbqueue,             \* this.cbqueue: socketId -> set of correlation ids
  reqs,                \* every request queued so far, indexed by correlation id
  frames,              \* correlation ids whose response frame is still to arrive
  correlationId,       \* this.correlationId
  socketId,            \* this._socketId
  closing,             \* this.closing
  closed,              \* this.closed
  pendingClose,        \* this.pendingClose is set
  closeResolved,       \* pendingCloseResolve() has been called
  closeCbs,            \* per close(callback) call: times the callback ran
  teardowns,           \* times close() ran closeBrokers on the two pools
  calls,               \* sendRequest calls (one leader each)
  ctrls,               \* sendControllerRequest calls
  versionsDisabled,    \* this.options.versions.disabled
  brokerMetadata,      \* this.brokerMetadata: nodeId -> host:port
  topicMetadata,       \* this.topicMetadata: topic -> leader nodeId
  clusterMetadata,     \* this.clusterMetadata.controllerId (0: not set)
  ready,               \* this.ready
  connecting,          \* this.connecting
  refreshingMetadata,  \* this.refreshingMetadata
  refreshTask,         \* connectToBrokers run started by getAvailableBroker
  connectOp,           \* retry operation of connect() and its attempt
  loads,               \* loadMetadataForTopics calls
  waiters,             \* waitUntilReady listeners, in registration order
  refreshCbs,          \* refreshBrokerMetadata(callback) calls of the user
  uncaught,            \* an exception escaped a handler
  ev                   \* what the last step emitted or did (observations)

vars == <<socks, brokers, longpollingBrokers, cbqueue, reqs, frames,
          correlationId, socketId, closing, closed, pendingClose,
          closeResolved, closeCbs, teardowns, calls, ctrls,
          versionsDisabled, brokerMetadata,
          topicMetadata, clusterMetadata, ready, connecting,
          refreshingMetadata, refreshTask, connectOp, loads, waiters,
          refreshCbs, uncaught, ev>>

(***************************************************************************)
(* Bounds of the model.                                                    *)
(***************************************************************************)
MaxSockets == 2     \* sockets createBroker may make
MaxReq == 5         \* correlation ids issued
MaxCalls == 2       \* sendRequest calls
MaxClose == 2       \* close(callback) calls
MaxLoads == 2       \* loadMetadataForTopics calls
MaxCtrls == 2       \* sendControllerRequest calls
MaxRefresh == 2     \* refreshBrokerMetadata(callback) calls of the user
Retries == 1        \* connectRetryOptions.retries of the model's client

Addrs == {"a:9092", "b:9092"}
NodeIds == {1, 2}
Topics == {"t"}
NoSock == 0
NoLeader == 0

St == [socks |-> socks, brokers |-> brokers,
       longpollingBrokers |-> longpollingBrokers, cbqueue |-> cbqueue,
       reqs |-> reqs, frames |-> frames, correlationId |-> correlationId,
       socketId |-> socketId, closing |-> closing, closed |-> closed,
       pendingClose |-> pendingClose, closeResolved |-> closeResolved,
       closeCbs |-> closeCbs, teardowns |-> teardowns, calls |-> calls,
       ctrls |-> ctrls, versionsDisabled |-> versionsDisabled,
       brokerMetadata |-> brokerMetadata, topicMetadata |-> topicMetadata,
       clusterMetadata |-> clusterMetadata, ready |-> ready,
       connecting |-> connecting, refreshingMetadata |-> refreshingMetadata,
       refreshTask |-> refreshTask, connectOp |-> connectOp, loads |-> loads,
       waiters |-> waiters, refreshCbs |-> refreshCbs,
       uncaught |-> uncaught, ev |-> {}, over |-> FALSE,
       P |-> [s |-> 1, a |-> "a:9092"]]

\* The state a task starts from; P is what _.sample and _.shuffle will choose.
Task(P) == [St EXCEPT !.P = P]

\* The state a task leaves behind.  `over` is set when the task would pass a
\* bound of the model; such a step is not taken.
Commit(T) ==
  /\ ~T.over
  /\ socks' = T.socks
  /\ brokers' = T.brokers
  /\ longpollingBrokers' = T.longpollingBrokers
  /\ cbqueue' = T.cbqueue
  /\ reqs' = T.reqs
  /\ frames' = T.frames
  /\ correlationId' = T.correlationId
  /\ socketId' = T.socketId
  /\ closing' = T.closing
  /\ closed' = T.closed
  /\ pendingClose' = T.pendingClose
  /\ closeResolved' = T.closeResolved
  /\ closeCbs' = T.closeCbs
  /\ teardowns' = T.teardowns
  /\ calls' = T.calls
  /\ ctrls' = T.ctrls
  /\ versionsDisabled' = T.versionsDisabled
  /\ brokerMetadata' = T.brokerMetadata
  /\ topicMetadata' = T.topicMetadata
  /\ clusterMetadata' = T.clusterMetadata
  /\ ready' = T.ready
  /\ connecting' = T.connecting
  /\ refreshingMetadata' = T.refreshingMetadata
  /\ refreshTask' = T.refreshTask
  /\ connectOp' = T.connectOp
  /\ loads' = T.loads
  /\ waiters' = T.waiters
  /\ refreshCbs' = T.refreshCbs
  /\ uncaught' = T.uncaught
  /\ ev' = T.ev

Emit(T, tag) == [T EXCEPT !.ev = @ \cup {tag}]
Throw(T) == Emit([T EXCEPT !.uncaught = TRUE], "throw")

Min(S) == CHOOSE x \in S : \A y \in S : x <= y
Pick(S, p) == IF p \in S THEN p ELSE Min(S)

(***************************************************************************)
(* Pools: objects keyed by host:port, kept in insertion order because      *)
(* brokerForLeader() takes Object.keys(brokers)[0].                        *)
(***************************************************************************)
PoolKeys(pool) == {pool[i].addr : i \in 1..Len(pool)}
PoolSocks(pool) == {pool[i].sock : i \in 1..Len(pool)}
PoolGet(pool, a) ==
  IF a \in PoolKeys(pool)
  THEN pool[CHOOSE i \in 1..Len(pool) : pool[i].addr = a].sock
  ELSE NoSock
PoolSet(pool, a, s) ==
  IF a \in PoolKeys(pool)
  THEN [i \in 1..Len(pool) |->
          IF pool[i].addr = a THEN [addr |-> a, sock |-> s] ELSE pool[i]]
  ELSE Append(pool, [addr |-> a, sock |-> s])
PoolDel(pool, a) == SelectSeq(pool, LAMBDA e : e.addr # a)

getBrokers(T, longpolling) ==
  IF longpolling THEN T.longpollingBrokers ELSE T.brokers
setBrokers(T, longpolling, pool) ==
  IF longpolling THEN [T EXCEPT !.longpollingBrokers = pool]
  ELSE [T EXCEPT !.brokers = pool]

(***************************************************************************)
(* BrokerWrapper predicates.                                               *)
(***************************************************************************)
isConnected(sk) ==
  sk.st \in {"connecting", "connected"} /\ ~sk.closing /\ sk.error = "none"
isReady(sk) == isConnected(sk) /\ sk.apiSupport # "unset"

NewSocket(addr, longpolling) ==
  [addr |-> addr, longpolling |-> longpolling, st |-> "connecting",
   error |-> "none", closing |-> FALSE, retrying |-> FALSE,
   retryTimer |-> FALSE, waiting |-> FALSE, apiSupport |-> "unset",
   idleTimeout |-> FALSE, localEnd |-> FALSE,
   reconnects |-> 0]

\* createBroker: the caller has checked that the client is not closing.
createBroker(T, addr, longpolling) ==
  IF T.socketId >= MaxSockets THEN [T EXCEPT !.over = TRUE]
  ELSE [T EXCEPT !.socketId = @ + 1,
                 !.socks = Append(@, NewSocket(addr, longpolling))]

\* setupBroker: [T, b, threw]; b is the new socket's id.
setupBroker(T, addr, longpolling) ==
  IF T.closing THEN [T |-> T, b |-> NoSock, threw |-> TRUE]
  ELSE LET T1 == createBroker(T, addr, longpolling) IN
       IF T1.over THEN [T |-> T1, b |-> NoSock, threw |-> FALSE] ELSE
       [T |-> setBrokers(T1, longpolling,
                         PoolSet(getBrokers(T1, longpolling), addr, T1.socketId)),
        b |-> T1.socketId, threw |-> FALSE]

\* brokerForLeader(leader, longpolling); leader = NoLeader is `undefined`.
brokerForLeader(T, leader, longpolling) ==
  LET pool == getBrokers(T, longpolling)
      md == T.brokerMetadata
      none == [T |-> T, b |-> NoSock, threw |-> FALSE]
      byNode(n) ==
        IF n \notin DOMAIN md THEN none
        ELSE IF PoolGet(pool, md[n]) # NoSock
             THEN [T |-> T, b |-> PoolGet(pool, md[n]), threw |-> FALSE]
             ELSE setupBroker(T, md[n], longpolling)
  IN IF leader = NoLeader
     THEN IF Len(pool) > 0 THEN [T |-> T, b |-> pool[1].sock, threw |-> FALSE]
          ELSE IF DOMAIN md # {} THEN byNode(Min(DOMAIN md))
          ELSE none
     ELSE byNode(leader)

(***************************************************************************)
(* The callback queue: socketId -> (correlationId -> [decoder, callback]). *)
(* A request's entry in reqs keeps what the wrapped callback closes over:  *)
(* its timer (timeoutId) and whether `callback` is still the caller's      *)
(* (live) or has been replaced by _.noop.                                  *)
(***************************************************************************)
EmptyQueue == [x \in {} |-> {}]
QueueOf(T, s) == IF s \in DOMAIN T.cbqueue THEN T.cbqueue[s] ELSE {}

\* nextId that hands out the current id again
nextIdReused(T) ==
  IF T.correlationId >= MaxReq THEN [T EXCEPT !.over = TRUE]
  ELSE T

nextId(T) ==
  IF T.correlationId >= MaxReq THEN [T EXCEPT !.over = TRUE]
  ELSE [T EXCEPT !.correlationId = @ + 1]

\* wrapTimeoutIfNeeded: the request's timer is armed, callback is the caller's.
wrapTimeoutIfNeeded(s, kind, owner) ==
  [sock |-> s, kind |-> kind, owner |-> owner, timer |-> TRUE, live |-> TRUE,
   res |-> 0, tmo |-> 0, err |-> 0]

\* KafkaClient.queueCallback: wrap the callback with its timer, then
\* Client.queueCallback stores the entry under the socket's partition.
queueCallback(T, s, c, kind, owner) ==
  [T EXCEPT
     !.reqs = Append(@, wrapTimeoutIfNeeded(s, kind, owner)),
     !.cbqueue = [x \in DOMAIN @ \cup {s} |->
                    IF x = s THEN QueueOf(T, s) \cup {c} ELSE @[x]]]

unqueueCallback(T, s, c) ==
  IF c \notin QueueOf(T, s) THEN T
  ELSE IF T.cbqueue[s] = {c}
       THEN [T EXCEPT !.cbqueue = [x \in DOMAIN @ \ {s} |-> @[x]]]
       ELSE [T EXCEPT !.cbqueue[s] = @ \ {c}]

\* broker.write(request): the frame's answer is now due from the broker.
write(T, c) == [T EXCEPT !.frames = @ \cup {c}]

(***************************************************************************)
(* Metadata stores.  A decoded metadata response is                        *)
(* [brokers: nodeId -> host:port, topics: topic -> leader, controller].    *)
(* controller = 0 stands for a response without clusterMetadata.           *)
(***************************************************************************)
setBrokerMetadata(T, md) ==
  [T EXCEPT !.brokerMetadata = md,
            !.ev = IF DOMAIN T.brokerMetadata # {} /\ T.brokerMetadata # md
                   THEN @ \cup {"brokersChangedScheduled"} ELSE @]

setClusterMetadata(T, controller) == [T EXCEPT !.clusterMetadata = controller]

updateMetadatas(T, resp, replaceTopicMetadata) ==
  [setBrokerMetadata(T, resp.brokers) EXCEPT
     !.topicMetadata =
        IF replaceTopicMetadata THEN resp.topics
        ELSE [t \in DOMAIN @ \cup DOMAIN resp.topics |->
                IF t \in DOMAIN resp.topics THEN resp.topics[t] ELSE @[t]],
     !.clusterMetadata = IF resp.controller # 0 THEN resp.controller ELSE @]

\* Client.closeBrokers: mark each socket closing and end it.
closeBrokers(T, ss) ==
  [T EXCEPT !.socks = [i \in DOMAIN @ |->
     IF i \in ss THEN [@[i] EXCEPT !.closing = TRUE, !.localEnd = TRUE]
     ELSE @[i]]]

validBrokers(T) == {T.brokerMetadata[n] : n \in DOMAIN T.brokerMetadata}

\* closeDeadBrokers of refreshBrokers
closeDeadBrokers(T, longpolling) ==
  LET pool == getBrokers(T, longpolling)
      deadBrokerKeys == PoolKeys(pool) \ validBrokers(T)
  IN IF deadBrokerKeys = {} THEN T
     ELSE closeBrokers(
            setBrokers(T, longpolling,
                       SelectSeq(pool, LAMBDA e : e.addr \notin deadBrokerKeys)),
            {pool[i].sock : i \in {j \in 1..Len(pool) :
                                     pool[j].addr \in deadBrokerKeys}})

\* refreshBrokers without closeDeadBrokers(this.longpollingBrokers)
refreshBrokersNormalPoolOnly(T) == closeDeadBrokers(T, FALSE)

refreshBrokers(T) == closeDeadBrokers(closeDeadBrokers(T, FALSE), TRUE)

\* The final callback of refreshBrokerMetadata's waterfall.
refreshDone(T, ok, resp) ==
  LET T1 == IF ~ok
            THEN [T EXCEPT !.refreshingMetadata = FALSE,
                           !.refreshTask = [@ EXCEPT !.active = FALSE,
                                                     !.timer = FALSE],
                           !.ev = @ \cup {"refreshFailed"}]
            ELSE refreshBrokers(updateMetadatas(
                   [T EXCEPT !.refreshingMetadata = FALSE,
                             !.refreshTask = [@ EXCEPT !.active = FALSE,
                                                       !.timer = FALSE],
                             !.ev = @ \cup {"refreshed"}], resp, TRUE))
  IN [T1 EXCEPT !.refreshCbs =
        [i \in DOMAIN @ |-> IF @[i].held
                              THEN [cbs |-> @[i].cbs + 1, held |-> FALSE]
                              ELSE @[i]]]

\* loadMetadataFrom(broker, cb)
loadMetadataFrom(T, b) ==
  IF b = NoSock \/ ~isConnected(T.socks[b]) THEN Throw(T)
  ELSE IF T.correlationId >= MaxReq THEN nextId(T)
  ELSE write(queueCallback(nextId(T), b, T.correlationId + 1, "refresh", 0),
             T.correlationId + 1)

(***************************************************************************)
(* connectToBrokers: one run for the bootstrap attempt (owner "connect",   *)
(* kept in connectOp) and one for getAvailableBroker (owner "refresh").    *)
(* hosts are the shuffled hosts not tried yet, sock the socket             *)
(* connectToBroker waits on, timer its connectTimer.                       *)
(***************************************************************************)
InitialHosts == Addrs
NoResp == [brokers |-> [n \in {} |-> "a:9092"], topics |-> [t \in {} |-> 0],
           controller |-> 0]
NoTask == [active |-> FALSE, hosts |-> {}, sock |-> NoSock, timer |-> FALSE]
NoOp == [phase |-> "none", left |-> 0, stopped |-> FALSE,
         active |-> FALSE, hosts |-> {}, sock |-> NoSock, timer |-> FALSE]

PickAddr(hosts, a) == IF a \in hosts THEN a ELSE CHOOSE x \in hosts : TRUE
Thrown(T) == "throw" \in T.ev

getTask(T, owner) == IF owner = "refresh" THEN T.refreshTask ELSE T.connectOp
setTask(T, owner, active, hosts, sock, timer) ==
  IF owner = "refresh"
  THEN [T EXCEPT !.refreshTask = [active |-> active, hosts |-> hosts,
                                  sock |-> sock, timer |-> timer]]
  ELSE [T EXCEPT !.connectOp = [@ EXCEPT !.active = active, !.hosts = hosts,
                                         !.sock = sock, !.timer = timer]]

RECURSIVE Do(_, _, _)

\* connectToBroker(broker, callback)
connectToBroker(T, owner, addr) ==
  LET r == setupBroker(T, addr, FALSE) IN
  IF r.threw THEN Throw(T)
  ELSE IF r.T.over THEN r.T
  ELSE setTask(r.T, owner, TRUE, getTask(T, owner).hosts \ {addr}, r.b, TRUE)

connectToBrokers(T, owner, hosts) ==
  Do(setTask(T, owner, TRUE, hosts, NoSock, FALSE), "connectToBroker",
     [owner |-> owner, addr |-> PickAddr(hosts, T.P.a)])

\* The final callback of connect()'s async.series that sets ready whatever
\* the error
connectAttemptDoneReadyAnyway(T, ok) ==
  IF ~ok /\ T.connectOp.left > 0 /\ ~T.connectOp.stopped
  THEN [T EXCEPT !.connectOp = [@ EXCEPT !.phase = "backoff", !.left = @ - 1]]
  ELSE [T EXCEPT !.connecting = FALSE, !.connectOp.phase = "ended",
                 !.ready = TRUE,
                 !.ev = @ \cup {IF ok THEN "ready" ELSE "error"}]

\* The final callback of connect()'s async.series: connect.retry(error).
connectAttemptDone(T, ok) ==
  IF ~ok /\ T.connectOp.left > 0 /\ ~T.connectOp.stopped
  THEN [T EXCEPT !.connectOp = [@ EXCEPT !.phase = "backoff", !.left = @ - 1]]
  ELSE [T EXCEPT !.connecting = FALSE, !.connectOp.phase = "ended",
                 !.ready = IF ok THEN TRUE ELSE @,
                 !.ev = @ \cup {IF ok THEN "ready" ELSE "error"}]

\* The callback a loadMetadataForTopics caller passed: connect()'s series
\* task (replace) or topicExists (merge).
loadDone(T, l, ok, resp) ==
  LET T1 == [T EXCEPT !.loads[l] = [@ EXCEPT !.phase = "done", !.timer = FALSE]]
  IN IF T.loads[l].owner = "connect"
     THEN Do(IF ok THEN updateMetadatas(T1, resp, TRUE) ELSE T1,
             "connectAttemptDone", [ok |-> ok])
     ELSE IF T.loads[l].owner = "getController"
          THEN Do(T1, "controllerLoaded", [l |-> l, ok |-> ok, resp |-> resp])
     ELSE IF ok THEN Emit(updateMetadatas(T1, resp, FALSE), "topicExists")
          ELSE Emit(T1, "topicExistsFailed")

\* The second task of loadMetadataForTopics' series: encode, queue, write.
loadMetadataRequest(T, l) ==
  IF T.correlationId >= MaxReq THEN nextId(T)
  ELSE IF T.socks[T.loads[l].sock].apiSupport = "unset" THEN Throw(nextId(T))
  ELSE write(queueCallback([nextId(T) EXCEPT !.loads[l].phase = "sent"],
                           T.loads[l].sock, T.correlationId + 1, "load", l),
             T.correlationId + 1)

\* waitUntilReady(broker, callback)
waitUntilReady(T, b, kind, id) ==
  [T EXCEPT !.waiters = Append(@, [sock |-> b, kind |-> kind, id |-> id])]

loadMetadataForTopics(T, owner) ==
  LET r == brokerForLeader(T, NoLeader, FALSE)
      l == Len(T.loads) + 1
      new(phase, timer) == [owner |-> owner, sock |-> r.b, phase |-> phase,
                            timer |-> timer]
  IN IF Len(T.loads) >= MaxLoads THEN [T EXCEPT !.over = TRUE]
     ELSE IF r.T.over THEN r.T
     ELSE IF r.threw THEN Throw(T)
     ELSE IF r.b = NoSock \/ r.T.socks[r.b].error # "none"
             \/ r.T.socks[r.b].st \in {"failed", "closed"}
          THEN Do([r.T EXCEPT !.loads = Append(@, new("start", FALSE))],
                  "loadDone", [l |-> l, ok |-> FALSE, resp |-> NoResp])
     ELSE IF ~isReady(r.T.socks[r.b])
          THEN waitUntilReady(
                 [r.T EXCEPT !.loads = Append(@, new("waitReady", TRUE))],
                 r.b, "load", l)
     ELSE Do([r.T EXCEPT !.loads = Append(@, new("start", FALSE))],
             "loadMetadataRequest", [l |-> l])

\* The second task of connect()'s series.
connectLoadMetadata(T) ==
  IF T.closing
  THEN [T EXCEPT !.connectOp = [@ EXCEPT !.stopped = TRUE, !.phase = "stalled"]]
  ELSE Do([T EXCEPT !.connectOp.phase = "metadata"], "loadMetadataForTopics",
          [owner |-> "connect"])

\* The function connect() hands to connect.attempt.
connectAttempt(T) ==
  IF T.closing
  THEN [T EXCEPT !.connectOp = [@ EXCEPT !.stopped = TRUE, !.phase = "stalled"]]
  ELSE Do([T EXCEPT !.connectOp.phase = "hosts"], "connectToBrokers",
          [owner |-> "connect", hosts |-> InitialHosts])

\* connect() without the connecting latch
connectUnlatched(T) ==
  Do([T EXCEPT !.connecting = TRUE,
               !.connectOp = [NoOp EXCEPT !.left = Retries],
               !.ev = @ \cup {"connectStarted"}],
     "connectAttempt", [x |-> 0])

connect(T) ==
  IF T.connecting THEN Emit(T, "connectIgnored")
  ELSE Do([T EXCEPT !.connecting = TRUE,
                    !.connectOp = [NoOp EXCEPT !.left = Retries],
                    !.ev = @ \cup {"connectStarted"}],
          "connectAttempt", [x |-> 0])

\* The final callback of connectToBrokers.
connectToBrokersDone(T, owner, ok, b) ==
  LET T1 == setTask(T, owner, FALSE, {}, NoSock, FALSE) IN
  IF owner = "refresh"
  THEN IF ok THEN Do(T1, "loadMetadataFrom", [b |-> b])
       ELSE Do(T1, "refreshDone", [ok |-> FALSE, resp |-> NoResp])
  ELSE IF ok THEN Do(T1, "connectLoadMetadata", [x |-> 0])
       ELSE Do(T1, "connectAttemptDone", [ok |-> FALSE])

\* connectToBroker called back with an error: doWhilst's test, then the
\* next host or the final callback.
connectToBrokerFailed(T, owner) ==
  IF ~T.closing /\ getTask(T, owner).hosts # {}
  THEN Do(T, "connectToBroker",
          [owner |-> owner, addr |-> PickAddr(getTask(T, owner).hosts, T.P.a)])
  ELSE Do(T, "connectToBrokersDone", [owner |-> owner, ok |-> FALSE, b |-> NoSock])

getAvailableBroker(T) ==
  LET connectedBrokers ==
        {s \in PoolSocks(T.brokers) : isConnected(T.socks[s])}
      brokersToTry ==
        IF Len(T.brokers) = 0 THEN validBrokers(T)
        ELSE validBrokers(T) \ PoolKeys(T.brokers)
  IN IF connectedBrokers # {}
     THEN Do(T, "loadMetadataFrom", [b |-> Pick(connectedBrokers, T.P.s)])
     ELSE IF brokersToTry = {}
          THEN Do(T, "refreshDone", [ok |-> FALSE, resp |-> NoResp])
     ELSE Do(T, "connectToBrokers", [owner |-> "refresh", hosts |-> brokersToTry])

\* refreshBrokerMetadata without the refreshingMetadata latch
refreshBrokerMetadataUnlatched(T) ==
  IF T.closing THEN T
  ELSE Do([T EXCEPT !.refreshingMetadata = TRUE,
                    !.ev = @ \cup {"refreshStarted"}],
          "getAvailableBroker", [x |-> 0])

refreshBrokerMetadata(T) ==
  IF T.refreshingMetadata \/ T.closing THEN T
  ELSE Do([T EXCEPT !.refreshingMetadata = TRUE,
                    !.ev = @ \cup {"refreshStarted"}],
          "getAvailableBroker", [x |-> 0])

\* refreshBrokerMetadata(callback) called by the user: cbs counts the runs
\* of its callback, held is set while the waterfall of the refresh has the
\* callback as its final callback.
refreshBrokerMetadataOfUser(T) ==
  IF Len(T.refreshCbs) >= MaxRefresh THEN [T EXCEPT !.over = TRUE]
  ELSE Do([T EXCEPT !.refreshCbs =
             Append(@, [cbs |-> 0,
                        held |-> ~(T.refreshingMetadata \/ T.closing)])],
          "refreshBrokerMetadata", [x |-> 0])

(***************************************************************************)
(* sendRequest, one leader per call.  A call's phase: "waitReady" (in      *)
(* waitUntilReady), "send" (ensureBrokerReady called back, sendToBroker is *)
(* due), "sent" (request queued and written), "done" (the caller's         *)
(* callback ran, with result), "threw" (an exception escaped).  writes and  *)
(* asyncWrites count its broker.write and broker.writeAsync calls,         *)
(* closingAtCall is this.closing when the call arrived, brokerAtCall what  *)
(* brokerForLeader gave for its leader then.                               *)
(***************************************************************************)
callDone(T, k, result) ==
  [T EXCEPT !.calls[k] = [@ EXCEPT !.phase = "done", !.result = result,
                                   !.cbs = @ + 1, !.timer = FALSE]]

callThrew(T, k) == Throw([T EXCEPT !.calls[k].phase = "threw"])

\* broker.writeAsync(request) for call k: fire and forget, no answer is due.
\* The request's entry in reqs records the id it took; its callback is the
\* call's, invoked right after.
writeAsync(T, s, k) ==
  [T EXCEPT !.reqs = Append(@, [wrapTimeoutIfNeeded(s, "noack", k) EXCEPT
                                  !.timer = FALSE, !.res = 1]),
            !.calls[k].asyncWrites = @ + 1]

\* sendToBroker that queues and writes whatever requireAcks is
sendToBrokerAlwaysAcked(T, k) ==
  LET r == brokerForLeader(T, T.calls[k].leader, T.calls[k].longpolling) IN
  IF r.T.over THEN r.T
  ELSE IF r.threw THEN callThrew(T, k)
  ELSE IF r.b = NoSock \/ ~isConnected(r.T.socks[r.b])
       THEN callDone(Do(r.T, "refreshBrokerMetadata", [x |-> 0]), k,
                     "BrokerNotAvailable")
  ELSE IF ~isReady(r.T.socks[r.b]) THEN callDone(r.T, k, "NotReady")
  ELSE IF T.calls[k].longpolling /\ r.T.socks[r.b].waiting
       THEN callDone(r.T, k, "null")
  ELSE IF r.T.correlationId >= MaxReq THEN nextId(r.T)
  ELSE write(queueCallback(
               [nextId(r.T) EXCEPT
                  !.socks[r.b].waiting = IF T.calls[k].longpolling THEN TRUE ELSE @,
                  !.calls[k].phase = "sent", !.calls[k].sock = r.b,
                  !.calls[k].writes = @ + 1],
               r.b, r.T.correlationId + 1, "data", k),
             r.T.correlationId + 1)

\* sendToBroker without the check of socket.waiting
sendToBrokerUnguarded(T, k) ==
  LET r == brokerForLeader(T, T.calls[k].leader, T.calls[k].longpolling) IN
  IF r.T.over THEN r.T
  ELSE IF r.threw THEN callThrew(T, k)
  ELSE IF r.b = NoSock \/ ~isConnected(r.T.socks[r.b])
       THEN callDone(Do(r.T, "refreshBrokerMetadata", [x |-> 0]), k,
                     "BrokerNotAvailable")
  ELSE IF ~isReady(r.T.socks[r.b]) THEN callDone(r.T, k, "NotReady")
  ELSE IF r.T.correlationId >= MaxReq THEN nextId(r.T)
  ELSE IF T.calls[k].requireAcks = 0
       THEN callDone(writeAsync([nextId(r.T) EXCEPT
                                   !.socks[r.b].waiting =
                                      IF T.calls[k].longpolling THEN TRUE ELSE @,
                                   !.calls[k].sock = r.b],
                                r.b, k),
                     k, "no ack")
  ELSE write(queueCallback(
               [nextId(r.T) EXCEPT
                  !.socks[r.b].waiting = IF T.calls[k].longpolling THEN TRUE ELSE @,
                  !.calls[k].phase = "sent", !.calls[k].sock = r.b,
                  !.calls[k].writes = @ + 1],
               r.b, r.T.correlationId + 1, "data", k),
             r.T.correlationId + 1)

\* sendToBroker(payload, leader, callback) of sendRequest
sendToBroker(T, k) ==
  LET r == brokerForLeader(T, T.calls[k].leader, T.calls[k].longpolling) IN
  IF r.T.over THEN r.T
  ELSE IF r.threw THEN callThrew(T, k)
  ELSE IF r.b = NoSock \/ ~isConnected(r.T.socks[r.b])
       THEN callDone(Do(r.T, "refreshBrokerMetadata", [x |-> 0]), k,
                     "BrokerNotAvailable")
  ELSE IF ~isReady(r.T.socks[r.b]) THEN callDone(r.T, k, "NotReady")
  ELSE IF T.calls[k].longpolling /\ r.T.socks[r.b].waiting
       THEN callDone(r.T, k, "null")
  ELSE IF r.T.correlationId >= MaxReq THEN nextId(r.T)
  ELSE IF T.calls[k].requireAcks = 0
       THEN callDone(writeAsync([nextId(r.T) EXCEPT
                                   !.socks[r.b].waiting =
                                      IF T.calls[k].longpolling THEN TRUE ELSE @,
                                   !.calls[k].sock = r.b],
                                r.b, k),
                     k, "no ack")
  ELSE write(queueCallback(
               [nextId(r.T) EXCEPT
                  !.socks[r.b].waiting = IF T.calls[k].longpolling THEN TRUE ELSE @,
                  !.calls[k].phase = "sent", !.calls[k].sock = r.b,
                  !.calls[k].writes = @ + 1],
               r.b, r.T.correlationId + 1, "data", k),
             r.T.correlationId + 1)

\* ensureBrokerReady(leader, callback) of sendRequest
ensureBrokerReady(T, k) ==
  LET r == brokerForLeader(T, T.calls[k].leader, T.calls[k].longpolling) IN
  IF r.T.over THEN r.T
  ELSE IF r.threw \/ r.b = NoSock THEN callThrew(T, k)
  ELSE IF ~isReady(r.T.socks[r.b])
       THEN waitUntilReady(
              [r.T EXCEPT !.calls[k] = [@ EXCEPT !.phase = "waitReady",
                                                 !.sock = r.b, !.timer = TRUE]],
              r.b, "call", k)
  ELSE [r.T EXCEPT !.calls[k].phase = "send"]

\* A call of the data plane, as sendRequest finds it.
NewCall(T, leader, longpolling, requireAcks) ==
  [leader |-> leader, longpolling |-> longpolling,
   requireAcks |-> requireAcks, closingAtCall |-> T.closing,
   brokerAtCall |->
     LET r == brokerForLeader(T, leader, longpolling) IN
     IF r.T.over \/ r.threw THEN "unknown"
     ELSE IF r.b = NoSock THEN "none"
     ELSE IF isConnected(r.T.socks[r.b]) THEN "connected" ELSE "disconnected",
   phase |-> "start", sock |-> NoSock, timer |-> FALSE, result |-> "none",
   cbs |-> 0, writes |-> 0, asyncWrites |-> 0, produce |-> FALSE]

sendRequest(T, leader, longpolling, requireAcks) ==
  IF Len(T.calls) >= MaxCalls THEN [T EXCEPT !.over = TRUE]
  ELSE Do([T EXCEPT !.calls = Append(@, NewCall(T, leader, longpolling,
                                                requireAcks))],
          "ensureBrokerReady", [k |-> Len(T.calls) + 1])

\* The final callback of sendProduceRequest's waterfall.
produceDone(T, k, result) ==
  callDone(IF result \in {"NotLeaderForPartition", "UnknownTopicOrPartition"}
           THEN Emit(T, "brokersChanged") ELSE T,
           k, result)

\* sendProduceRequest for payloads led by one broker (compress and
\* verifyPayloadsHasLeaders call back at once); its sendRequest call is
\* marked produce, the callback of that call is produceDone.
sendProduceRequest(T, leader, requireAcks) ==
  LET T1 == [T EXCEPT !.calls = Append(@, [NewCall(T, leader, FALSE, requireAcks)
                                             EXCEPT !.produce = TRUE])]
  IN IF Len(T.calls) >= MaxCalls THEN [T EXCEPT !.over = TRUE]
     ELSE IF T.closing
          THEN produceDone(T1, Len(T.calls) + 1, "ClientIsClosing")
     ELSE Do(T1, "ensureBrokerReady", [k |-> Len(T.calls) + 1])

(***************************************************************************)
(* sendControllerRequest.  A call's phase: "loading" (getController waits  *)
(* for loadMetadata), "sent" (request queued and written), "done" (the      *)
(* caller's callback ran, with result), "threw" (an exception escaped).     *)
(* resolves counts the getController calls made for the call, requests the  *)
(* requests written for it, notController the NotController answers it      *)
(* received, got is whether the broker getController delivered last was     *)
(* connected at that time.                                                  *)
(***************************************************************************)
\* The caller's callback of sendControllerRequest.
ctrlDone(T, k, result) ==
  [T EXCEPT !.ctrls[k] = [@ EXCEPT !.phase = "done", !.result = result,
                                   !.cbs = @ + 1]]

\* getBroker(host, port): [T, b, threw]
getBroker(T, addr) ==
  IF PoolGet(T.brokers, addr) # NoSock
  THEN [T |-> T, b |-> PoolGet(T.brokers, addr), threw |-> FALSE]
  ELSE setupBroker(T, addr, FALSE)

\* The callback sendControllerRequest gives getController, called with a
\* broker: encode, wrap, queue, write.
controllerResolved(T, k, b) ==
  IF T.correlationId >= MaxReq THEN nextId(T)
  ELSE write(queueCallback(
               [nextId(T) EXCEPT
                  !.ctrls[k] = [@ EXCEPT
                     !.phase = "sent", !.sock = b, !.requests = @ + 1,
                     !.got = IF isConnected(T.socks[b]) THEN "connected"
                             ELSE "disconnected"]],
               b, T.correlationId + 1, "controller", k),
             T.correlationId + 1)

\* The callback getController gives loadMetadata.
controllerLoaded(T, l, ok, resp) ==
  LET k == CHOOSE x \in 1..Len(T.ctrls) : T.ctrls[x].load = l
      T1 == updateMetadatas(T, resp, FALSE)
      r == getBroker(T1, resp.brokers[resp.controller])
  IN IF ~ok THEN ctrlDone(T, k, "loadFailed")
     ELSE IF resp.controller = 0 THEN ctrlDone(T, k, "BrokerNotAvailable")
     ELSE IF resp.controller \notin DOMAIN resp.brokers
          THEN Throw([T1 EXCEPT !.ctrls[k].phase = "threw"])
     ELSE IF r.T.over THEN r.T
     ELSE IF r.threw THEN Throw([T1 EXCEPT !.ctrls[k].phase = "threw"])
     ELSE IF ~isConnected(r.T.socks[r.b])
          THEN ctrlDone(r.T, k, "BrokerNotAvailable")
     ELSE Do(r.T, "controllerResolved", [k |-> k, b |-> r.b])

getController(T, k) ==
  LET T0 == [T EXCEPT !.ctrls[k].resolves = @ + 1] IN
  IF T.clusterMetadata # 0
  THEN IF T.clusterMetadata \notin DOMAIN T.brokerMetadata
       THEN Throw([T0 EXCEPT !.ctrls[k].phase = "threw"])
       ELSE LET r == getBroker(T0, T.brokerMetadata[T.clusterMetadata]) IN
            IF r.T.over THEN r.T
            ELSE IF r.threw THEN Throw([T0 EXCEPT !.ctrls[k].phase = "threw"])
            ELSE Do(r.T, "controllerResolved", [k |-> k, b |-> r.b])
  ELSE Do([T0 EXCEPT !.ctrls[k] = [@ EXCEPT !.phase = "loading",
                                            !.load = Len(T.loads) + 1]],
          "loadMetadataForTopics", [owner |-> "getController"])

\* wrappedCallback of wrapControllerCheckIfNeeded that hands every answer
\* to the caller
wrappedCallbackNoRetry(T, k, result) ==
  IF result = "NotController"
  THEN ctrlDone([T EXCEPT !.clusterMetadata = 0,
                          !.ctrls[k].notController = @ + 1], k, result)
  ELSE ctrlDone(T, k, result)

\* wrappedCallback of wrapControllerCheckIfNeeded
wrappedCallback(T, k, result) ==
  IF result = "NotController"
  THEN LET T1 == [T EXCEPT !.clusterMetadata = 0,
                           !.ctrls[k].notController = @ + 1] IN
       IF ~T.ctrls[k].hasBeenInvoked
       THEN Do([T1 EXCEPT !.ctrls[k].hasBeenInvoked = TRUE],
               "getController", [k |-> k])
       ELSE ctrlDone(T1, k, result)
  ELSE ctrlDone(T, k, result)

sendControllerRequest(T) ==
  IF Len(T.ctrls) >= MaxCtrls THEN [T EXCEPT !.over = TRUE]
  ELSE Do([T EXCEPT !.ctrls = Append(@, [phase |-> "start", load |-> 0,
                                         sock |-> NoSock, resolves |-> 0,
                                         requests |-> 0,
                                         notController |-> 0,
                                         got |-> "none",
                                         hasBeenInvoked |-> FALSE,
                                         cbs |-> 0, result |-> "none"])],
          "getController", [k |-> Len(T.ctrls) + 1])

(***************************************************************************)
(* The per-connection ready event and version negotiation.                 *)
(***************************************************************************)
\* self.emit(readyEventName): the onReady listeners of waitUntilReady, in
\* registration order.
runListeners(T, ws) ==
  IF ws = << >> \/ Thrown(T) THEN T
  ELSE Do(IF Head(ws).kind = "call"
          THEN Do([T EXCEPT !.calls[Head(ws).id].timer = FALSE],
                  "sendToBroker", [k |-> Head(ws).id])
          ELSE Do([T EXCEPT !.loads[Head(ws).id].timer = FALSE],
                  "loadMetadataRequest", [l |-> Head(ws).id]),
          "runListeners", [ws |-> Tail(ws)])

emitReady(T, s) ==
  Do([T EXCEPT !.waiters = SelectSeq(@, LAMBDA w : w.sock # s)],
     "runListeners", [ws |-> SelectSeq(T.waiters, LAMBDA w : w.sock = s)])

\* The callback the socket's connect handler gives initializeBroker.
brokerInitialized(T, s, ok) ==
  IF ok THEN Do(Emit(T, "brokerReady"), "emitReady", [s |-> s]) ELSE T

\* The callback initializeBroker gives getApiVersions.
versionsReceived(T, s, outcome, et, versions) ==
  LET timedOut == outcome = "timeout" \/ (outcome = "connerr" /\ et = "timeout")
      v == IF outcome = "result" THEN versions ELSE "base"
      ok == (outcome = "result" \/ timedOut) /\ v # "empty"
  IN Do(IF ok THEN [T EXCEPT !.socks[s].apiSupport = v] ELSE T,
        "brokerInitialized", [s |-> s, ok |-> ok])

VersionsDisabled == FALSE

initializeBroker(T, s) ==
  IF ~isConnected(T.socks[s])
  THEN Do(T, "brokerInitialized", [s |-> s, ok |-> FALSE])
  ELSE IF T.versionsDisabled
       THEN Do(T, "brokerInitialized", [s |-> s, ok |-> TRUE])
  ELSE IF T.correlationId >= MaxReq THEN nextId(T)
  ELSE write(queueCallback(nextId(T), s, T.correlationId + 1, "versions", s),
             T.correlationId + 1)

(***************************************************************************)
(* Completion of a queued request.  outcome is "result" (decoded frame),   *)
(* "timeout" (the request's timer) or "connerr" (clearCallbackQueue with   *)
(* an error of type et).                                                   *)
(***************************************************************************)
Count(rq, outcome) ==
  IF outcome = "result" THEN [rq EXCEPT !.res = @ + 1]
  ELSE IF outcome = "timeout" THEN [rq EXCEPT !.tmo = @ + 1]
  ELSE [rq EXCEPT !.err = @ + 1]

\* The caller's callback of a queued request.
callback(T, c, outcome, et, payload) ==
  LET rq == T.reqs[c]
      T1 == [T EXCEPT !.reqs[c] = Count(@, outcome)]
  IN CASE rq.kind = "data" /\ T.calls[rq.owner].produce ->
            produceDone(T1, rq.owner,
                        IF outcome = "result" THEN payload
                        ELSE IF outcome = "timeout" THEN "timeout" ELSE et)
       [] rq.kind = "data" ->
            callDone(T1, rq.owner,
                     IF outcome = "result" THEN payload
                     ELSE IF outcome = "timeout" THEN "timeout" ELSE et)
       [] rq.kind = "versions" ->
            Do(T1, "versionsReceived",
               [s |-> rq.owner, outcome |-> outcome, et |-> et,
                versions |-> payload])
       [] rq.kind = "refresh" ->
            Do(T1, "refreshDone", [ok |-> outcome = "result", resp |-> payload])
       [] rq.kind = "controller" ->
            Do(T1, "wrappedCallback",
               [k |-> rq.owner,
                result |-> IF outcome = "result" THEN payload
                           ELSE IF outcome = "timeout" THEN "timeout" ELSE et])
       [] OTHER ->
            Do(T1, "loadDone",
               [l |-> rq.owner, ok |-> outcome = "result", resp |-> payload])

\* wrappedFn of wrapTimeoutIfNeeded: clear(), then callback.
wrappedFn(T, c, outcome, et, payload) ==
  IF T.reqs[c].live
  THEN Do([T EXCEPT !.reqs[c].timer = FALSE], "callback",
          [c |-> c, outcome |-> outcome, et |-> et, payload |-> payload])
  ELSE [T EXCEPT !.reqs[c].timer = FALSE]

\* The timer without its unqueueCallback
requestTimedOutKeepsEntry(T, c) ==
  [Do([T EXCEPT !.reqs[c].timer = FALSE], "callback",
      [c |-> c, outcome |-> "timeout", et |-> "timeout", payload |-> "none"])
   EXCEPT !.reqs[c].live = FALSE]

\* The timer of wrapTimeoutIfNeeded.
requestTimedOut(T, c) ==
  [Do(unqueueCallback([T EXCEPT !.reqs[c].timer = FALSE], T.reqs[c].sock, c),
      "callback",
      [c |-> c, outcome |-> "timeout", et |-> "timeout", payload |-> "none"])
   EXCEPT !.reqs[c].live = FALSE]

(***************************************************************************)
(* close() and clearCallbackQueue.                                         *)
(***************************************************************************)
close(T, withCallback) ==
  LET T1 == [T EXCEPT
               !.connectOp.stopped = TRUE,
               !.pendingClose = TRUE,
               !.socks = IF T.pendingClose THEN @
                         ELSE [i \in DOMAIN @ |->
                                 IF i \in PoolSocks(T.brokers)
                                 THEN [@[i] EXCEPT !.idleTimeout = TRUE]
                                 ELSE @[i]],
               !.closeCbs = IF withCallback THEN Append(@, 0) ELSE @,
               !.closing = TRUE]
  IN IF DOMAIN T.cbqueue # {} \/ T.closed THEN T1
     ELSE [closeBrokers(closeBrokers(T1, PoolSocks(T.brokers)),
                        PoolSocks(T.longpollingBrokers))
             EXCEPT !.closed = TRUE, !.closeResolved = TRUE,
                    !.teardowns = @ + 1, !.ev = @ \cup {"teardown"}]

\* queue.forEach of clearCallbackQueue, over the partition of socket s in
\* insertion order; an entry queued on s meanwhile is visited too.
failHandlers(T, s, visited, hasError, et) ==
  IF QueueOf(T, s) \ visited = {} \/ Thrown(T) THEN T
  ELSE LET c == Min(QueueOf(T, s) \ visited) IN
       Do([(IF hasError
            THEN Do(T, "wrappedFn", [c |-> c, outcome |-> "connerr", et |-> et,
                                     payload |-> "none"])
            ELSE T) EXCEPT !.reqs[c].timer = FALSE],
          "failHandlers",
          [s |-> s, visited |-> visited \cup {c}, hasError |-> hasError,
           et |-> et])

\* After the forEach of clearCallbackQueue.
dropPartition(T, s) ==
  IF Thrown(T) THEN T
  ELSE IF T.closing
       THEN Do([T EXCEPT !.cbqueue = [x \in DOMAIN @ \ {s} |-> @[x]]],
               "close", [withCallback |-> FALSE])
  ELSE [T EXCEPT !.cbqueue = [x \in DOMAIN @ \ {s} |-> @[x]]]

clearCallbackQueue(T, s, hasError, et) ==
  IF s \notin DOMAIN T.cbqueue THEN T
  ELSE Do(IF ~T.socks[s].longpolling
          THEN Do(T, "failHandlers",
                  [s |-> s, visited |-> {}, hasError |-> hasError, et |-> et])
          ELSE T,
          "dropPartition", [s |-> s])

(***************************************************************************)
(* The handlers createBroker and connectToBroker put on a socket.          *)
(***************************************************************************)
\* retry() of createBroker
retry(T, s) ==
  IF T.socks[s].retrying \/ T.socks[s].closing \/ T.closing THEN T
  ELSE [T EXCEPT !.socks[s] = [@ EXCEPT !.retrying = TRUE, !.retryTimer = TRUE]]

Owners == {"connect", "refresh"}
AwaitedBy(T, s) ==
  {o \in Owners : getTask(T, o).active /\ getTask(T, o).timer
                  /\ getTask(T, o).sock = s}

\* The once('connect') and once('error') listeners of connectToBroker.
connectToBrokerCalledBack(T, s, ok) ==
  IF AwaitedBy(T, s) = {} \/ Thrown(T) THEN T
  ELSE LET o == CHOOSE x \in AwaitedBy(T, s) : TRUE IN
       Do(IF ok
          THEN Do(T, "connectToBrokersDone", [owner |-> o, ok |-> TRUE, b |-> s])
          ELSE Do(setTask(T, o, TRUE, getTask(T, o).hosts, NoSock, FALSE),
                  "connectToBrokerFailed", [owner |-> o]),
          "connectToBrokerCalledBack", [s |-> s, ok |-> ok])

\* socket.on('connect')
onConnect(T, s) ==
  Do(Do([T EXCEPT !.socks[s] =
           [@ EXCEPT !.st = "connected", !.error = "none",
                     !.waiting = IF T.socks[s].error # "none" THEN FALSE ELSE @]],
        "initializeBroker", [s |-> s]),
     "connectToBrokerCalledBack", [s |-> s, ok |-> TRUE])

\* socket.on('error')
onError(T, s) ==
  Do([T EXCEPT !.socks[s] = [@ EXCEPT !.st = "failed", !.error = "err"],
               !.ev = IF ~T.connecting THEN @ \cup {"socket_error"} ELSE @],
     "connectToBrokerCalledBack", [s |-> s, ok |-> FALSE])

\* socket.on('timeout')
onTimeout(T, s) ==
  [T EXCEPT !.socks[s] = [@ EXCEPT !.error = "timeout", !.localEnd = TRUE]]

\* socket.on('end')
onEnd(T, s) == retry([T EXCEPT !.socks[s].st = "ended"], s)

\* socket.on('close'), after clearCallbackQueue returned
onCloseEnd(T, s) ==
  LET T1 == [T EXCEPT !.socks[s] = [@ EXCEPT !.closing = TRUE, !.localEnd = TRUE],
                      !.brokers = PoolDel(@, T.socks[s].addr)]
  IN IF Thrown(T) THEN T
     ELSE IF ~T.closing THEN retry(T1, s) ELSE T1

\* socket.on('close')
onClose(T, s) ==
  Do(Do([T EXCEPT !.socks[s].st = "closed",
                  !.frames = {c \in @ : T.reqs[c].sock # s}],
        "clearCallbackQueue",
        [s |-> s,
         hasError |-> ~T.closing \/ T.socks[s].error # "none",
         et |-> IF T.socks[s].error # "none" THEN T.socks[s].error
                ELSE IF ~T.closing THEN "BrokerNotAvailable" ELSE "none"]),
     "onCloseEnd", [s |-> s])

\* Client.reconnectBroker
reconnectBroker(T, s) ==
  [T EXCEPT !.socks[s] = [@ EXCEPT !.retrying = FALSE, !.reconnects = 1]]

deleteDisconnected(T, s) ==
  LET sk == T.socks[s]
      pool == getBrokers(T, sk.longpolling)
  IN IF isConnected(sk) THEN T
     ELSE IF PoolGet(pool, sk.addr) # s THEN Throw(T)
     ELSE setBrokers(T, sk.longpolling, PoolDel(pool, sk.addr))

\* The retryTimer of retry(); idle is brokerWrapper.isIdle() at that time.
retryTimerFired(T, s, idle) ==
  IF T.socks[s].closing THEN [T EXCEPT !.socks[s].retryTimer = FALSE]
  ELSE IF idle
       THEN deleteDisconnected([T EXCEPT !.socks[s].retryTimer = FALSE,
                                         !.socks[s].closing = TRUE], s)
  ELSE reconnectBroker([T EXCEPT !.socks[s].retryTimer = FALSE], s)

\* Client.handleReceivedData for one complete frame with correlation id c:
\* look the entry up and remove it, decode, call back.
handleReceivedData(T, c, payload) ==
  IF c \notin QueueOf(T, T.reqs[c].sock) THEN [T EXCEPT !.frames = @ \ {c}]
  ELSE Do(unqueueCallback([T EXCEPT !.frames = @ \ {c}], T.reqs[c].sock, c),
          "wrappedFn",
          [c |-> c, outcome |-> "result", et |-> "none", payload |-> payload])

\* The timer of waitUntilReady: remove the listener, call back with an error.
waitUntilReadyTimedOut(T, w) ==
  IF w.kind = "call"
  THEN callDone([T EXCEPT !.waiters = SelectSeq(@, LAMBDA x : x # w)],
                w.id, "timeout")
  ELSE Do([T EXCEPT !.waiters = SelectSeq(@, LAMBDA x : x # w)],
          "loadDone", [l |-> w.id, ok |-> FALSE, resp |-> NoResp])

\* The connectTimer of connectToBroker.
connectTimedOut(T, o) ==
  Do(setTask(T, o, TRUE, getTask(T, o).hosts, NoSock, FALSE),
     "connectToBrokerFailed", [owner |-> o])

(***************************************************************************)
(* A call of one handler by another, by name.                              *)
(***************************************************************************)
Do(T, op, a) ==
  CASE op = "connectToBroker" -> connectToBroker(T, a.owner, a.addr)
    [] op = "connectToBrokers" -> connectToBrokers(T, a.owner, a.hosts)
    [] op = "connectAttemptDone" -> connectAttemptDone(T, a.ok)
    [] op = "loadDone" -> loadDone(T, a.l, a.ok, a.resp)
    [] op = "loadMetadataRequest" -> loadMetadataRequest(T, a.l)
    [] op = "loadMetadataForTopics" -> loadMetadataForTopics(T, a.owner)
    [] op = "loadMetadataFrom" -> loadMetadataFrom(T, a.b)
    [] op = "connectLoadMetadata" -> connectLoadMetadata(T)
    [] op = "connectAttempt" -> connectAttempt(T)
    [] op = "connect" -> connect(T)
    [] op = "connectToBrokersDone" -> connectToBrokersDone(T, a.owner, a.ok, a.b)
    [] op = "connectToBrokerFailed" -> connectToBrokerFailed(T, a.owner)
    [] op = "getAvailableBroker" -> getAvailableBroker(T)
    [] op = "refreshBrokerMetadata" -> refreshBrokerMetadata(T)
    [] op = "refreshDone" -> refreshDone(T, a.ok, a.resp)
    [] op = "sendToBroker" -> sendToBroker(T, a.k)
    [] op = "ensureBrokerReady" -> ensureBrokerReady(T, a.k)
    [] op = "sendRequest" ->
         sendRequest(T, a.leader, a.longpolling, a.requireAcks)
    [] op = "sendProduceRequest" ->
         sendProduceRequest(T, a.leader, a.requireAcks)
    [] op = "runListeners" -> runListeners(T, a.ws)
    [] op = "emitReady" -> emitReady(T, a.s)
    [] op = "brokerInitialized" -> brokerInitialized(T, a.s, a.ok)
    [] op = "versionsReceived" ->
         versionsReceived(T, a.s, a.outcome, a.et, a.versions)
    [] op = "initializeBroker" -> initializeBroker(T, a.s)
    [] op = "callback" -> callback(T, a.c, a.outcome, a.et, a.payload)
    [] op = "wrappedFn" -> wrappedFn(T, a.c, a.outcome, a.et, a.payload)
    [] op = "requestTimedOut" -> requestTimedOut(T, a.c)
    [] op = "close" -> close(T, a.withCallback)
    [] op = "failHandlers" -> failHandlers(T, a.s, a.visited, a.hasError, a.et)
    [] op = "dropPartition" -> dropPartition(T, a.s)
    [] op = "clearCallbackQueue" -> clearCallbackQueue(T, a.s, a.hasError, a.et)
    [] op = "connectToBrokerCalledBack" ->
         connectToBrokerCalledBack(T, a.s, a.ok)
    [] op = "onConnect" -> onConnect(T, a.s)
    [] op = "onError" -> onError(T, a.s)
    [] op = "onTimeout" -> onTimeout(T, a.s)
    [] op = "onEnd" -> onEnd(T, a.s)
    [] op = "onCloseEnd" -> onCloseEnd(T, a.s)
    [] op = "onClose" -> onClose(T, a.s)
    [] op = "retryTimerFired" -> retryTimerFired(T, a.s, a.idle)
    [] op = "handleReceivedData" -> handleReceivedData(T, a.c, a.payload)
    [] op = "waitUntilReadyTimedOut" -> waitUntilReadyTimedOut(T, a.w)
    [] op = "connectTimedOut" -> connectTimedOut(T, a.o)
    [] op = "controllerResolved" -> controllerResolved(T, a.k, a.b)
    [] op = "controllerLoaded" -> controllerLoaded(T, a.l, a.ok, a.resp)
    [] op = "getController" -> getController(T, a.k)
    [] op = "wrappedCallback" -> wrappedCallback(T, a.k, a.result)
    [] op = "sendControllerRequest" -> sendControllerRequest(T)

(***************************************************************************)
(* Inputs.                                                                 *)
(***************************************************************************)
\* Choices a task leaves to _.sample and _.shuffle.
Picks == {[s |-> 1, a |-> "a:9092"], [s |-> 2, a |-> "b:9092"]}

Injective(f) == \A x, y \in DOMAIN f : f[x] = f[y] => x = y

\* Decoded metadata responses: every leader and the controller are brokers
\* of the same response.
MetaResponses ==
  UNION {UNION {{[brokers |-> bm, topics |-> tm, controller |-> ctl] :
                   tm \in UNION {[ts -> D] : ts \in SUBSET Topics},
                   ctl \in D \cup {0}} :
                bm \in {f \in [D -> Addrs] : Injective(f)}} :
         D \in SUBSET NodeIds \ {{}}}

\* The two-broker cluster, and the cluster shrunk to broker 2.
ClusterResponses ==
  {[brokers |-> [n \in NodeIds |-> IF n = 1 THEN "a:9092" ELSE "b:9092"],
    topics |-> [t \in Topics |-> 1], controller |-> 1],
   [brokers |-> [n \in {2} |-> "b:9092"],
    topics |-> [t \in Topics |-> 2], controller |-> 2]}

\* The two-broker cluster with the topic led by either broker, the cluster
\* shrunk to broker 2, and the cluster shrunk to broker 1 with no topic.
ChangedResponses ==
  ClusterResponses \cup
  {[brokers |-> [n \in NodeIds |-> IF n = 1 THEN "a:9092" ELSE "b:9092"],
    topics |-> [t \in Topics |-> 2], controller |-> 2],
   [brokers |-> [n \in {1} |-> "a:9092"], topics |-> [t \in {} |-> 0],
    controller |-> 0]}

Payloads(kind) ==
  IF kind = "data" THEN {"ok"}
  ELSE IF kind = "controller" THEN {"ok", "NotController"}
  ELSE IF kind = "versions" THEN {"negotiated", "empty"}
  ELSE MetaResponses

(***************************************************************************)
(* Actions: one per call of the client's user, socket event or timer.      *)
(***************************************************************************)
Connect == \E P \in Picks : Commit(Do(Task(P), "connect", [x |-> 0]))

SendRequest ==
  \E leader \in NodeIds, longpolling \in BOOLEAN :
    /\ Len(calls) < MaxCalls
    /\ Commit(Do(St, "sendRequest", [leader |-> leader, longpolling |-> longpolling,
                                     requireAcks |-> 1]))

\* sendRequest for payloads led by the bootstrap broker
SendRequestToFirst ==
  \E longpolling \in BOOLEAN :
    /\ Len(calls) < MaxCalls
    /\ Commit(Do(St, "sendRequest", [leader |-> 1, longpolling |-> longpolling,
                                     requireAcks |-> 1]))

\* a fetch-like sendRequest (long polling)
SendFetch ==
  \E leader \in NodeIds :
    /\ Len(calls) < MaxCalls
    /\ Commit(Do(St, "sendRequest", [leader |-> leader, longpolling |-> TRUE,
                                     requireAcks |-> 1]))

\* a produce-like sendRequest (no long polling) to the bootstrap broker
SendRequestNormal ==
  /\ Len(calls) < MaxCalls
  /\ Commit(Do(St, "sendRequest", [leader |-> 1, longpolling |-> FALSE,
                                   requireAcks |-> 1]))

\* sendProduceRequest for payloads led by the bootstrap broker
SendProduceRequest ==
  \E requireAcks \in {0, 1} :
    /\ Len(calls) < MaxCalls
    /\ Commit(Do(St, "sendProduceRequest",
                 [leader |-> 1, requireAcks |-> requireAcks]))

SendControllerRequest ==
  \E P \in Picks :
    /\ Len(ctrls) < MaxCtrls
    /\ Commit(Do(Task(P), "sendControllerRequest", [x |-> 0]))

SendToBroker ==
  \E k \in 1..Len(calls), P \in Picks :
    /\ calls[k].phase = "send"
    /\ Commit(Do(Task(P), "sendToBroker", [k |-> k]))

TopicExists ==
  /\ Len(loads) < MaxLoads
  /\ Commit(Do(St, "loadMetadataForTopics", [owner |-> "topicExists"]))

RefreshBrokerMetadata ==
  \E P \in Picks :
    /\ ~refreshingMetadata /\ ~closing
    /\ Commit(Do(Task(P), "refreshBrokerMetadata", [x |-> 0]))

\* refreshBrokerMetadata(callback), whatever the client is doing.
RefreshBrokerMetadataOfUser ==
  \E P \in Picks :
    /\ Len(refreshCbs) < MaxRefresh
    /\ Commit(refreshBrokerMetadataOfUser(Task(P)))

RefreshBrokerMetadataIgnored ==
  /\ refreshingMetadata \/ closing
  /\ Commit(Emit(Do(St, "refreshBrokerMetadata", [x |-> 0]), "refreshIgnored"))

Close ==
  /\ Len(closeCbs) < MaxClose
  /\ Commit(Do(St, "close", [withCallback |-> TRUE]))

\* The first close(callback) call.
CloseFirst ==
  /\ ~pendingClose
  /\ Commit(Do(St, "close", [withCallback |-> TRUE]))

\* pendingClose.then(callback)
CloseResolved ==
  \E i \in 1..Len(closeCbs) :
    /\ closeResolved /\ closeCbs[i] = 0
    /\ Commit([St EXCEPT !.closeCbs[i] = 1])

SocketConnect ==
  \E s \in 1..Len(socks), P \in Picks :
    /\ socks[s].st = "connecting"
    /\ Commit(Do(Task(P), "onConnect", [s |-> s]))

SocketError ==
  \E s \in 1..Len(socks), P \in Picks :
    /\ socks[s].st \in {"connecting", "connected", "ended"}
    /\ Commit(Do(Task(P), "onError", [s |-> s]))

SocketTimeout ==
  \E s \in 1..Len(socks) :
    /\ socks[s].st \in {"connecting", "connected"}
    /\ socks[s].idleTimeout /\ ~socks[s].localEnd
    /\ Commit(Do(St, "onTimeout", [s |-> s]))

SocketEnd ==
  \E s \in 1..Len(socks) :
    /\ socks[s].st = "connected"
    /\ Commit(Do(St, "onEnd", [s |-> s]))

SocketClose ==
  \E s \in 1..Len(socks), P \in Picks :
    /\ socks[s].st # "closed"
    /\ socks[s].st \in {"ended", "failed"} \/ socks[s].localEnd
    /\ Commit(Do(Task(P), "onClose", [s |-> s]))

RetryTimer ==
  \E s \in 1..Len(socks), idle \in BOOLEAN :
    /\ socks[s].retryTimer
    /\ Commit(Do(St, "retryTimerFired", [s |-> s, idle |-> idle]))

Response ==
  \E c \in frames, P \in Picks :
    /\ socks[reqs[c].sock].st = "connected"
    /\ \E payload \in Payloads(reqs[c].kind) :
         Commit(Do(Task(P), "handleReceivedData", [c |-> c, payload |-> payload]))

\* Response, with the cluster unchanged or shrunk to broker 2.
ResponseSameCluster ==
  \E c \in frames, P \in Picks :
    /\ socks[reqs[c].sock].st = "connected"
    /\ \E payload \in (IF reqs[c].kind \in {"data", "versions", "controller"}
                         THEN Payloads(reqs[c].kind) ELSE ClusterResponses) :
         Commit(Do(Task(P), "handleReceivedData", [c |-> c, payload |-> payload]))

\* Response, with the cluster unchanged, re-led or shrunk.
ResponseChangedCluster ==
  \E c \in frames, P \in Picks :
    /\ socks[reqs[c].sock].st = "connected"
    /\ \E payload \in (IF reqs[c].kind \in {"data", "versions", "controller"}
                         THEN Payloads(reqs[c].kind) ELSE ChangedResponses) :
         Commit(Do(Task(P), "handleReceivedData", [c |-> c, payload |-> payload]))

\* Response, where the decoder of a data response may yield the
\* NotLeaderForPartition error and the cluster may change.
ResponseProduce ==
  \E c \in frames, P \in Picks :
    /\ socks[reqs[c].sock].st = "connected"
    /\ \E payload \in (IF reqs[c].kind = "data"
                         THEN {"ok", "NotLeaderForPartition"}
                       ELSE IF reqs[c].kind \in {"versions", "controller"}
                         THEN Payloads(reqs[c].kind) ELSE ChangedResponses) :
         Commit(Do(Task(P), "handleReceivedData", [c |-> c, payload |-> payload]))

RequestTimeout ==
  \E c \in 1..Len(reqs), P \in Picks :
    /\ reqs[c].timer
    /\ Commit(Do(Task(P), "requestTimedOut", [c |-> c]))

WaitUntilReadyTimeout ==
  \E i \in 1..Len(waiters) :
    /\ waiters[i].sock # NoSock
    /\ Commit(Do(St, "waitUntilReadyTimedOut", [w |-> waiters[i]]))

ConnectTimeout ==
  \E o \in Owners, P \in Picks :
    /\ getTask(St, o).active /\ getTask(St, o).timer
    /\ Commit(Do(Task(P), "connectTimedOut", [o |-> o]))

\* The timer of the retry operation: the next attempt.
ConnectRetry ==
  \E P \in Picks :
    /\ connectOp.phase = "backoff"
    /\ Commit(Do(Task(P), "connectAttempt", [x |-> 0]))

Init ==
  /\ socks = << >>
  /\ brokers = << >>
  /\ longpollingBrokers = << >>
  /\ cbqueue = EmptyQueue
  /\ reqs = << >>
  /\ frames = {}
  /\ correlationId = 0
  /\ socketId = 0
  /\ closing = FALSE
  /\ closed = FALSE
  /\ pendingClose = FALSE
  /\ closeResolved = FALSE
  /\ closeCbs = << >>
  /\ teardowns = 0
  /\ calls = << >>
  /\ ctrls = << >>
  /\ versionsDisabled \in BOOLEAN
  /\ brokerMetadata = [n \in {} |-> "a:9092"]
  /\ topicMetadata = [t \in {} |-> 0]
  /\ clusterMetadata = 0
  /\ ready = FALSE
  /\ connecting = FALSE
  /\ refreshingMetadata = FALSE
  /\ refreshTask = NoTask
  /\ connectOp = NoOp
  /\ loads = << >>
  /\ waiters = << >>
  /\ refreshCbs = << >>
  /\ uncaught = FALSE
  /\ ev = {}

Next ==
  \/ Connect \/ SendRequest \/ SendToBroker \/ TopicExists
  \/ RefreshBrokerMetadata \/ RefreshBrokerMetadataIgnored
  \/ Close \/ CloseResolved
  \/ SocketConnect \/ SocketError \/ SocketTimeout \/ SocketEnd \/ SocketClose
  \/ RetryTimer \/ Response \/ RequestTimeout \/ WaitUntilReadyTimeout
  \/ ConnectTimeout \/ ConnectRetry

Spec == Init /\ [][Next]_vars

(***************************************************************************)
(* The client right after a bootstrap through a:9092: the socket is        *)
(* connected and version-negotiated (correlation id 1), the metadata of    *)
(* the two-broker cluster is loaded (correlation id 2), ready was emitted. *)
(***************************************************************************)
DoneReq(kind, owner) ==
  [wrapTimeoutIfNeeded(1, kind, owner) EXCEPT !.timer = FALSE, !.res = 1]

InitReady ==
  /\ socks = << [NewSocket("a:9092", FALSE) EXCEPT !.st = "connected",
                                                   !.apiSupport = "negotiated"] >>
  /\ brokers = << [addr |-> "a:9092", sock |-> 1] >>
  /\ longpollingBrokers = << >>
  /\ cbqueue = EmptyQueue
  /\ reqs = << DoneReq("versions", 1), DoneReq("load", 1) >>
  /\ frames = {}
  /\ correlationId = 2
  /\ socketId = 1
  /\ closing = FALSE
  /\ closed = FALSE
  /\ pendingClose = FALSE
  /\ closeResolved = FALSE
  /\ closeCbs = << >>
  /\ teardowns = 0
  /\ calls = << >>
  /\ ctrls = << >>
  /\ versionsDisabled = VersionsDisabled
  /\ brokerMetadata = [n \in NodeIds |-> IF n = 1 THEN "a:9092" ELSE "b:9092"]
  /\ topicMetadata = [t \in Topics |-> 1]
  /\ clusterMetadata = 1
  /\ ready = TRUE
  /\ connecting = FALSE
  /\ refreshingMetadata = FALSE
  /\ refreshTask = NoTask
  /\ connectOp = [NoOp EXCEPT !.phase = "ended", !.left = Retries]
  /\ loads = << [owner |-> "connect", sock |-> 1, phase |-> "done",
                 timer |-> FALSE] >>
  /\ waiters = << >>
  /\ refreshCbs = << >>
  /\ uncaught = FALSE
  /\ ev = {}

(***************************************************************************)
(* Requests to the bootstrap broker on the normal and on the long-polling  *)
(* pool, with responses, request timers and socket failures.               *)
(***************************************************************************)
NextRequests ==
  \/ SendRequestToFirst \/ SendToBroker
  \/ SocketConnect \/ SocketError \/ SocketEnd \/ SocketClose
  \/ ResponseSameCluster \/ RequestTimeout

SpecRequests == InitReady /\ [][NextRequests]_vars

(***************************************************************************)
(* close(callback) called up to MaxClose times around produce-like         *)
(* requests on the bootstrap connection.                                   *)
(***************************************************************************)
NextClose ==
  \/ SendRequestNormal \/ SendToBroker \/ Close \/ CloseResolved
  \/ SocketError \/ SocketTimeout \/ SocketEnd \/ SocketClose
  \/ ResponseSameCluster \/ RequestTimeout

SpecClose == InitReady /\ [][NextClose]_vars

(***************************************************************************)
(* Metadata: refreshBrokerMetadata and topicExists while the cluster       *)
(* changes.                                                                *)
(***************************************************************************)
NextMeta ==
  \/ RefreshBrokerMetadata \/ RefreshBrokerMetadataIgnored \/ TopicExists
  \/ SocketConnect \/ SocketError \/ SocketClose
  \/ ResponseChangedCluster \/ RequestTimeout \/ ConnectTimeout

SpecMeta == InitReady /\ [][NextMeta]_vars

(***************************************************************************)
(* refreshBrokerMetadata with connections in both pools.                   *)
(***************************************************************************)
NextPools ==
  \/ RefreshBrokerMetadata \/ SendFetch
  \/ SocketConnect \/ SocketError \/ SocketClose
  \/ ResponseChangedCluster \/ RequestTimeout \/ ConnectTimeout

SpecPools == InitReady /\ [][NextPools]_vars

(***************************************************************************)
(* The bootstrap of a new client: connect() calls and the retry operation. *)
(***************************************************************************)
NextConnect ==
  \/ Connect \/ ConnectRetry \/ ConnectTimeout
  \/ SocketConnect \/ SocketError \/ SocketClose
  \/ ResponseChangedCluster \/ RequestTimeout \/ WaitUntilReadyTimeout

SpecConnect == Init /\ [][NextConnect]_vars

(***************************************************************************)
(* Controller requests: sendControllerRequest with NotController answers,  *)
(* metadata reloads and socket failures.                                   *)
(***************************************************************************)
NextController ==
  \/ SendControllerRequest
  \/ SocketConnect \/ SocketError \/ SocketClose
  \/ ResponseSameCluster \/ RequestTimeout \/ WaitUntilReadyTimeout

SpecController == InitReady /\ [][NextController]_vars

(***************************************************************************)
(* The data plane: sendProduceRequest with and without acknowledgement and *)
(* fetch-like requests, around close() and socket failures.                *)
(***************************************************************************)
NextDataPlane ==
  \/ SendProduceRequest \/ SendFetch \/ SendToBroker
  \/ CloseFirst \/ CloseResolved
  \/ SocketConnect \/ SocketError \/ SocketClose
  \/ ResponseSameCluster \/ RequestTimeout \/ WaitUntilReadyTimeout

SpecDataPlane == InitReady /\ [][NextDataPlane]_vars

(***************************************************************************)
(* Sockets that fail, end and close under requests on both pools and      *)
(* around close(), and the retry timer of createBroker.                    *)
(***************************************************************************)
NextReconnect ==
  \/ SendRequestToFirst \/ CloseFirst
  \/ SocketConnect \/ SocketError \/ SocketEnd \/ SocketClose \/ RetryTimer

SpecReconnect == InitReady /\ [][NextReconnect]_vars

(***************************************************************************)
(* sendProduceRequest and refreshBrokerMetadata with responses that carry  *)
(* protocol errors and a changed cluster.                                  *)
(***************************************************************************)
NextProduce ==
  \/ SendProduceRequest \/ SendToBroker \/ RefreshBrokerMetadata
  \/ SocketError \/ SocketClose
  \/ ResponseProduce \/ RequestTimeout

SpecProduce == InitReady /\ [][NextProduce]_vars

(***************************************************************************)
(* refreshBrokerMetadata(callback) calls of the user around close(), with  *)
(* the responses, timers and socket events of the refresh.                 *)
(***************************************************************************)
NextRefresh ==
  \/ RefreshBrokerMetadataOfUser \/ CloseFirst
  \/ SocketConnect \/ SocketError \/ SocketClose
  \/ ResponseChangedCluster \/ RequestTimeout \/ ConnectTimeout

SpecRefresh == InitReady /\ [][NextRefresh]_vars

(***************************************************************************)
(* Properties.                                                             *)
(***************************************************************************)
\* Times the caller's callback of request c has run.
Invoked(c) == reqs[c].res + reqs[c].tmo + reqs[c].err

\* Request c can still complete: its entry is queued or its timer is armed.
Pending(c) == c \in QueueOf(St, reqs[c].sock) \/ reqs[c].timer

\* C1: the callback of every queued request is invoked exactly once (with
\* the result, a timeout error or a connection error): never twice, and a
\* request that can no longer complete has had its callback invoked.
C1_CallbackExactlyOnce ==
  \A c \in 1..Len(reqs) :
    /\ Invoked(c) <= 1
    /\ ~Pending(c) => Invoked(c) = 1

\* A request dropped for good with its callback never invoked.
C1_DroppedUninvoked ==
  \E c \in 1..Len(reqs) : ~Pending(c) /\ Invoked(c) = 0 /\ closing

\* The step is the 'close' event of socket s.
Closes(s) == socks[s].st # "closed" /\ socks'[s].st = "closed"

\* C2: when a socket closes while the client is not closing or the socket
\* has a sticky error, every request pending on it, on a normal or on a
\* long-polling connection, gets its callback invoked with the socket's
\* error (BrokerNotAvailable if it has none), its timer is cleared and the
\* socket's partition is removed from the callback queue.
C2_CloseFailsPending ==
  [][\A s \in 1..Len(socks) :
       (Closes(s) /\ (~closing \/ socks[s].error # "none"))
       => /\ s \notin DOMAIN cbqueue'
          /\ \A c \in QueueOf(St, s) :
               /\ reqs'[c].err = reqs[c].err + 1
               /\ ~reqs'[c].timer
               /\ reqs[c].kind = "data" =>
                    calls'[reqs[c].owner].result =
                      (IF socks[s].error # "none" THEN socks[s].error
                       ELSE "BrokerNotAvailable")]_vars

\* A long-polling socket closed with an error set, a fetch queued on it was
\* not called back and its timer is still armed.
C2_LongPollingLeftArmed ==
  \E c \in 1..Len(reqs) :
    /\ socks[reqs[c].sock].longpolling /\ socks[reqs[c].sock].st = "closed"
    /\ socks[reqs[c].sock].error # "none"
    /\ reqs[c].kind = "data" /\ reqs[c].timer /\ Invoked(c) = 0

\* C3: when a request's timer fires (the only place `callback` becomes
\* _.noop) the entry leaves the callback queue and the callback gets the
\* timeout error, once; a frame with that correlation id arriving later on
\* the open socket changes no request and no entry of the queue.
C3_TimeoutIsFinal ==
  [][\A c \in 1..Len(reqs) :
       /\ (reqs[c].live /\ ~reqs'[c].live)
          => /\ c \notin (IF reqs[c].sock \in DOMAIN cbqueue'
                          THEN cbqueue'[reqs[c].sock] ELSE {})
             /\ ~reqs'[c].timer
             /\ reqs'[c].tmo = 1 /\ reqs'[c].res = 0 /\ reqs'[c].err = 0
             /\ reqs[c].kind = "data" =>
                  calls'[reqs[c].owner].result = "timeout"
       /\ (~reqs[c].live /\ c \in frames /\ c \notin frames'
           /\ socks'[reqs[c].sock].st = "connected")
          => /\ reqs' = reqs
             /\ cbqueue' = cbqueue
             /\ calls' = calls]_vars

\* A request timed out and its late frame has been consumed on the open
\* socket while another request was still queued.
C3_LateFrameDropped ==
  \E c \in 1..Len(reqs) :
    /\ ~reqs[c].live /\ reqs[c].tmo = 1 /\ c \notin frames
    /\ socks[reqs[c].sock].st = "connected"
    /\ QueueOf(St, reqs[c].sock) # {}

\* Nothing is left that could complete a request or the close: no frame is
\* due, no timer is armed, every socket is closed.
Quiet ==
  /\ frames = {} /\ waiters = << >>
  /\ \A s \in 1..Len(socks) : socks[s].st = "closed" /\ ~socks[s].retryTimer
  /\ \A c \in 1..Len(reqs) : ~reqs[c].timer
  /\ ~refreshTask.timer /\ ~connectOp.timer

\* Quiet, and every callback of the resolved close promise has run.
Settled == Quiet /\ (closeResolved => \A i \in 1..Len(closeCbs) : closeCbs[i] = 1)

\* C4: for N >= 1 close(callback) calls the teardown runs exactly once and
\* the N callbacks are notified, each exactly once and none before the
\* teardown: never more than once, and once everything has settled, once.
C4_OneTeardownAllNotified ==
  /\ teardowns <= 1
  /\ \A i \in 1..Len(closeCbs) :
       closeCbs[i] <= 1 /\ (closeCbs[i] = 1 => teardowns = 1)
  /\ (Len(closeCbs) >= 1 /\ Settled)
     => (teardowns = 1 /\ \A i \in 1..Len(closeCbs) : closeCbs[i] = 1)

\* Two close(callback) calls, everything has settled, no teardown has run.
C4_TwoClosesNoTeardown ==
  Len(closeCbs) = 2 /\ Settled /\ teardowns = 0

\* C5: after close() no pool is closed while the callback queue is not
\* empty, and close() does not stay pending with an empty queue: once the
\* queue is empty and nothing is left to happen, the teardown has run and
\* every close callback has been invoked.
C5_CloseCompletesAfterDrain ==
  /\ closed => DOMAIN cbqueue = {}
  /\ (closing /\ DOMAIN cbqueue = {} /\ Settled)
     => (closed /\ \A i \in 1..Len(closeCbs) : closeCbs[i] = 1)

\* close() is pending, the request that was pending has completed by its
\* response, the queue is empty and nothing is left to happen.
C5_StuckAfterResponse ==
  /\ closing /\ ~closed /\ DOMAIN cbqueue = {} /\ Quiet
  /\ \E c \in 1..Len(reqs) : reqs[c].kind = "data" /\ reqs[c].res = 1

\* C6: a connection has at most one long-polling request queued, and a
\* long-polling sendRequest that met the waiting flag completed with null
\* and queued (so wrote) no request.
C6_OneLongPollInFlight ==
  /\ \A s \in 1..Len(socks) :
       socks[s].longpolling =>
         Cardinality({c \in QueueOf(St, s) : reqs[c].kind = "data"}) <= 1
  /\ \A k \in 1..Len(calls) :
       calls[k].result = "null" =>
         /\ calls[k].longpolling /\ calls[k].cbs = 1
         /\ \A c \in 1..Len(reqs) :
              ~(reqs[c].kind = "data" /\ reqs[c].owner = k)
  /\ \A c \in 1..Len(reqs) :
       (reqs[c].kind = "data" /\ socks[reqs[c].sock].longpolling
        /\ c \in QueueOf(St, reqs[c].sock)) => socks[reqs[c].sock].waiting

\* A second long-polling sendRequest completed with null while the first
\* was queued.
C6_SecondFetchSkipped ==
  \E k \in 1..Len(calls), c \in 1..Len(reqs) :
    /\ calls[k].result = "null"
    /\ reqs[c].kind = "data" /\ c \in QueueOf(St, reqs[c].sock)
    /\ socks[reqs[c].sock].longpolling

\* The bootstrap operation is in progress exactly while the latch is set.
ConnectInProgress ==
  /\ connecting <=> connectOp.phase \in {"hosts", "metadata", "backoff", "stalled"}
  /\ connectOp.phase = "hosts" => connectOp.active /\ connectOp.timer
  /\ connectOp.phase = "metadata" =>
       \E l \in 1..Len(loads) : loads[l].owner = "connect" /\ loads[l].phase # "done"

\* C7: a connect() call made while the connecting latch is set starts no
\* retry operation and opens no socket; an operation starts only with the
\* latch clear; the latch is set exactly while the operation is in progress
\* and is released when it ends in success (ready) or in retry exhaustion
\* (error with no retry left).
C7_ConnectLatch ==
  [][/\ "connectIgnored" \in ev' =>
          /\ connecting /\ connecting'
          /\ socks' = socks /\ connectOp' = connectOp /\ loads' = loads
          /\ reqs' = reqs /\ frames' = frames /\ brokers' = brokers
     /\ "connectStarted" \in ev' => ~connecting
     /\ (connecting /\ ~connecting') =>
          /\ connectOp'.phase = "ended"
          /\ \/ "ready" \in ev' /\ ready'
             \/ "error" \in ev' /\ connectOp.left = 0
     /\ ("ready" \in ev' \/ "error" \in ev') => ~connecting'
     /\ ConnectInProgress']_vars

\* connect() was called, and ignored, while the first attempt waited for
\* its socket.
C7_SecondConnectIgnored ==
  "connectIgnored" \in ev /\ connecting /\ connectOp.phase = "hosts"
  /\ Len(socks) = 1

\* The refresh requests (loadMetadataFrom) still queued.
RefreshQueued ==
  {c \in 1..Len(reqs) :
     reqs[c].kind = "refresh" /\ c \in QueueOf(St, reqs[c].sock)}

\* At most one refresh is outstanding, and under the latch.
RefreshSingleFlight ==
  /\ Cardinality(RefreshQueued) <= 1
  /\ RefreshQueued # {} => refreshingMetadata
  /\ refreshingMetadata => (RefreshQueued # {} \/ refreshTask.active)

\* C8: while a refresh is in flight (latch set) a refreshBrokerMetadata call
\* writes no metadata request, at most one refresh request is outstanding,
\* and the latch is set only while a refresh is in flight: it is cleared
\* when the round-trip ends, in success or in error.
C8_RefreshSingleFlight ==
  [][/\ "refreshIgnored" \in ev' =>
          /\ reqs' = reqs /\ frames' = frames /\ cbqueue' = cbqueue
          /\ socks' = socks /\ correlationId' = correlationId
          /\ refreshingMetadata' = refreshingMetadata
     /\ ("refreshed" \in ev' \/ "refreshFailed" \in ev') => ~refreshingMetadata'
     /\ RefreshSingleFlight']_vars

\* refreshBrokerMetadata was called, and ignored, while a refresh request
\* was outstanding.
C8_RefreshCoalesced ==
  "refreshIgnored" \in ev /\ refreshingMetadata /\ ~closing /\ RefreshQueued # {}

\* C9: a successful refresh removes from each pool exactly the connections
\* whose key is no endpoint of the new brokerMetadata, and closes them; the
\* others stay in place, untouched.
C9_DeadBrokersClosed ==
  []["refreshed" \in ev' =>
       \A longpolling \in BOOLEAN :
         LET old == IF longpolling THEN longpollingBrokers ELSE brokers
             new == IF longpolling THEN longpollingBrokers' ELSE brokers'
             valid == {brokerMetadata'[n] : n \in DOMAIN brokerMetadata'}
         IN /\ new = SelectSeq(old, LAMBDA e : e.addr \in valid)
            /\ \A i \in 1..Len(old) :
                 IF old[i].addr \in valid
                 THEN socks'[old[i].sock] = socks[old[i].sock]
                 ELSE socks'[old[i].sock].closing /\ socks'[old[i].sock].localEnd]_vars

\* A refresh just closed a long-polling connection and left the bootstrap
\* connection in its pool.
C9_LongPollingReaped ==
  /\ "refreshed" \in ev
  /\ Len(brokers) = 1 /\ ~socks[brokers[1].sock].closing
  /\ \E s \in 1..Len(socks) :
       /\ socks[s].longpolling /\ socks[s].closing
       /\ s \notin PoolSocks(longpollingBrokers)
       /\ socks[s].addr \notin {brokerMetadata[n] : n \in DOMAIN brokerMetadata}

\* C10: after every successful metadata update, in replace or in merge
\* mode, every leader in topicMetadata is a key of brokerMetadata.
C10_LeadersAreBrokers ==
  \A t \in DOMAIN topicMetadata : topicMetadata[t] \in DOMAIN brokerMetadata

\* topicExists just merged a response that no longer has the topic's leader.
C10_StaleLeaderAfterMerge ==
  /\ "topicExists" \in ev
  /\ \E t \in DOMAIN topicMetadata : topicMetadata[t] \notin DOMAIN brokerMetadata

\* C11: for one sendControllerRequest call, the first NotController answer
\* clears the cached controllerId and starts exactly one more getController
\* (and at most one more request); the second NotController answer goes to
\* the caller; at most two requests are written and the caller's callback
\* runs at most once, and exactly once when the call is done; until then
\* the call waits for metadata or has a request that can still complete.
C11_ControllerRetriedOnce ==
  [][\A k \in 1..Len(ctrls') :
       LET d == ctrls'[k] IN
       /\ d.phase \in {"loading", "sent", "done"}
       /\ k <= Len(ctrls) /\ ctrls[k].phase = "sent" =>
             \E c \in 1..Len(reqs) : /\ reqs[c].kind = "controller"
                                      /\ reqs[c].owner = k /\ Pending(c)
       /\ d.requests <= 2 /\ d.requests <= d.resolves
       /\ d.resolves = (IF d.notController >= 1 THEN 2 ELSE 1)
       /\ d.cbs <= 1 /\ (d.cbs = 1 <=> d.phase = "done")
       /\ d.notController <= 2
       /\ d.notController = 2 =>
             d.phase = "done" /\ d.result = "NotController"
       /\ d.result = "NotController" => d.notController = 2
       /\ k <= Len(ctrls) /\ d.notController > ctrls[k].notController =>
             clusterMetadata' = 0]_vars

\* A call answered NotController twice: two requests were written and the
\* caller got the second answer.
C11_SecondNotControllerDelivered ==
  \E k \in 1..Len(ctrls) :
    /\ ctrls[k].notController = 2 /\ ctrls[k].requests = 2
    /\ ctrls[k].cbs = 1 /\ ctrls[k].result = "NotController"
\* C12: when a socket closes while the client is not closing and the socket
\* was not closed by the client, the connection is in no pool afterwards
\* and its reconnect is under way: the retry timer is armed and will reach
\* reconnectBroker unless the connection is idle then, or reconnectBroker
\* was reached already (the timer armed by 'end' fired before 'close').
C12_ClosedBrokerReconnects ==
  [][\A s \in 1..Len(socks) :
       Closes(s) /\ ~closing /\ ~socks[s].closing =>
         /\ PoolGet(brokers', socks[s].addr) # s
         /\ PoolGet(longpollingBrokers', socks[s].addr) # s
         /\ \/ socks'[s].retryTimer /\ ~socks'[s].closing
            \/ socks'[s].reconnects = 1]_vars

\* A socket closed after an error while the client was not closing: no retry
\* timer was ever armed and reconnectBroker was not reached.
C12_ClosedWithoutRetry ==
  \E s \in 1..Len(socks) :
    /\ ~closing /\ socks[s].st = "closed" /\ socks[s].error = "err"
    /\ ~socks[s].retrying /\ ~socks[s].retryTimer /\ socks[s].reconnects = 0

C14_UnreachableLeaderFails ==
  [][\A k \in 1..Len(calls') :
       LET d == calls'[k] IN
       d.brokerAtCall \in {"none", "disconnected"} /\ ~d.closingAtCall =>
         /\ d.writes = 0 /\ d.asyncWrites = 0
         /\ d.phase # "threw"
         /\ d.phase = "done" => d.result = "BrokerNotAvailable"
         /\ (k > Len(calls) \/ calls[k].phase # "done") /\ d.phase = "done" =>
               refreshingMetadata']_vars

\* A call for a leader whose broker was not connected waited for the broker
\* and ended with the timeout error of waitUntilReady.
C14_WaitedAndTimedOut ==
  \E k \in 1..Len(calls) :
    /\ calls[k].brokerAtCall = "disconnected" /\ ~calls[k].closingAtCall
    /\ calls[k].phase = "done" /\ calls[k].result = "timeout"
    /\ ~refreshingMetadata

\* C15: a data-plane call (sendProduceRequest, sendFetchRequest,
\* sendRequest) that arrives after close() began writes nothing, queues
\* nothing, lets no exception escape, and when its callback runs, it runs
\* with ClientIsClosing.
C15_CallsAfterCloseRejected ==
  \A k \in 1..Len(calls) :
    calls[k].closingAtCall =>
      /\ calls[k].writes = 0 /\ calls[k].asyncWrites = 0
      /\ \A c \in 1..Len(reqs) :
           ~(reqs[c].owner = k /\ reqs[c].kind \in {"data", "noack"})
      /\ calls[k].phase # "threw"
      /\ calls[k].phase = "done" => calls[k].result = "ClientIsClosing"

\* A fetch that arrived while close() waited for the callback queue to
\* drain was queued and written to the broker.
C15_FetchWrittenWhileClosing ==
  \E k \in 1..Len(calls) :
    /\ calls[k].closingAtCall /\ calls[k].longpolling
    /\ calls[k].writes = 1 /\ calls[k].phase = "sent"
    /\ \E c \in QueueOf(St, calls[k].sock) : reqs[c].owner = k

C17_BootstrapOutcome ==
  [][/\ (connecting /\ ~connecting') <=> ("ready" \in ev' \/ "error" \in ev')
     /\ ~("ready" \in ev' /\ "error" \in ev')
     /\ "ready" \in ev' =>
          /\ ready'
          /\ \E l \in 1..Len(loads) :
               /\ loads[l].owner = "connect" /\ loads[l].phase = "sent"
               /\ loads'[l].phase = "done"
               /\ socks[loads[l].sock].st = "connected"
          /\ \E resp \in ChangedResponses :
               /\ brokerMetadata' = resp.brokers
               /\ topicMetadata' = resp.topics
               /\ resp.controller # 0 => clusterMetadata' = resp.controller
     /\ "error" \in ev' => connectOp.left = 0 /\ ready' = ready
     /\ ready' # ready => "ready" \in ev']_vars

\* A second bootstrap ended in 'ready' and replaced the topic map of the
\* first with the empty one of its response.
C17_SecondBootstrapReplaced ==
  /\ "ready" \in ev /\ ready /\ ~connecting
  /\ \E l \in 1..Len(loads) : loads[l].owner = "connect" /\ l > 1
  /\ DOMAIN topicMetadata = {}

\* C18: with versions.disabled set no ApiVersions request is sent, and a
\* connection whose socket is connected has the base protocol versions as
\* its apiSupport and is ready.
C18_DisabledVersionsUseBase ==
  versionsDisabled =>
    /\ \A c \in 1..Len(reqs) : reqs[c].kind # "versions"
    /\ \A s \in 1..Len(socks) :
         socks[s].st = "connected" /\ isConnected(socks[s]) =>
           socks[s].apiSupport = "base" /\ isReady(socks[s])

\* With versions.disabled set the bootstrap socket is connected, its
\* per-connection ready event was emitted, and its apiSupport is unset: the
\* metadata request of the bootstrap waits for a ready event.
C18_ConnectedButNotReady ==
  /\ versionsDisabled /\ "brokerReady" \in ev
  /\ \E s \in 1..Len(socks), i \in 1..Len(waiters) :
       /\ socks[s].st = "connected" /\ socks[s].apiSupport = "unset"
       /\ waiters[i].sock = s /\ waiters[i].kind = "load"

\* C19: the per-connection ready event is emitted exactly in the steps in
\* which a connection's apiSupport is stored, and a version negotiation
\* that ends stores the versions of a non-empty answer, the base versions
\* after a timeout, and nothing after an empty answer or another error.
C19_ReadyIffApiSupportStored ==
  [][/\ "brokerReady" \in ev' <=>
          \E s \in 1..Len(socks) :
            socks[s].apiSupport = "unset" /\ socks'[s].apiSupport # "unset"
     /\ \A c \in 1..Len(reqs) :
          /\ reqs[c].kind = "versions" /\ Invoked(c) = 0
          /\ reqs'[c].res + reqs'[c].tmo + reqs'[c].err = 1
          => LET s == reqs[c].sock IN
             /\ reqs'[c].res = 1 =>
                  socks'[s].apiSupport \in {"negotiated", "unset"}
             /\ reqs'[c].tmo = 1 => socks'[s].apiSupport = "base"
             /\ reqs'[c].err = 1 /\ socks[s].error # "timeout" =>
                  socks'[s].apiSupport = "unset"]_vars

\* With versions.disabled set, a socket connected and the ready event of
\* its connection was emitted with no apiSupport stored.
C19_ReadyWithoutApiSupport ==
  /\ versionsDisabled /\ "brokerReady" \in ev
  /\ \A s \in 1..Len(socks) : socks[s].apiSupport = "unset"
  /\ \E s \in 1..Len(socks) : socks[s].st = "connected"

\* C20: every broker getController delivers to its callback was connected
\* when it was delivered, and BrokerNotAvailable is delivered only after
\* getController loaded metadata.
C20_ControllerIsConnected ==
  \A k \in 1..Len(ctrls) :
    /\ ctrls[k].got # "disconnected"
    /\ ctrls[k].result = "BrokerNotAvailable" => ctrls[k].load # 0

\* getController delivered the cached controller's broker while its socket
\* had an error, and the request was queued on that socket.
C20_DisconnectedControllerDelivered ==
  \E k \in 1..Len(ctrls) :
    /\ ctrls[k].got = "disconnected" /\ ctrls[k].load = 0
    /\ ctrls[k].phase = "sent" /\ socks[ctrls[k].sock].error = "err"
    /\ QueueOf(St, ctrls[k].sock) # {}

\* C21: a cached controllerId is a key of brokerMetadata, so the cached
\* lookup of getController finds the controller's broker entry.
C21_ControllerIsBroker ==
  clusterMetadata # 0 => clusterMetadata \in DOMAIN brokerMetadata

\* A response without clusterMetadata replaced brokerMetadata by the map
\* of broker 1 alone while controllerId 2 stayed cached.
C21_StaleControllerId ==
  /\ clusterMetadata = 2 /\ DOMAIN brokerMetadata = {1}
  /\ \E c \in 1..Len(reqs) : reqs[c].kind \in {"load", "refresh"}
                               /\ reqs[c].res = 1 /\ c > 2

\* C22: when a socket closes, its connection is no longer in its own pool
\* (the long-polling pool for a long-polling connection, the normal pool
\* otherwise), every other entry of that pool is kept, and the other pool
\* is unchanged.
C22_CloseLeavesOtherEntries ==
  [][\A s \in 1..Len(socks) :
       Closes(s) =>
         LET lp == socks[s].longpolling
             addr == socks[s].addr
             own == IF lp THEN longpollingBrokers ELSE brokers
             ownAfter == IF lp THEN longpollingBrokers' ELSE brokers'
         IN /\ PoolGet(ownAfter, addr) # s
            /\ \A a \in Addrs :
                 PoolGet(own, a) # s => PoolGet(ownAfter, a) = PoolGet(own, a)
            /\ IF lp THEN brokers' = brokers
               ELSE longpollingBrokers' = longpollingBrokers]_vars

\* The long-polling connection to a:9092 closed: it is still in the
\* long-polling pool, and the connected normal connection to a:9092 is in
\* no pool.
C22_NormalEntryDeleted ==
  \E s, n \in 1..Len(socks) :
    /\ socks[s].longpolling /\ socks[s].st = "closed"
    /\ PoolGet(longpollingBrokers, socks[s].addr) = s
    /\ ~socks[n].longpolling /\ socks[n].addr = socks[s].addr
    /\ socks[n].st = "connected" /\ socks[n].error = "none"
    /\ PoolGet(brokers, socks[n].addr) = NoSock

\* C23: in a step taken after close() began no socket is created, no
\* socket starts connecting and no reconnect is made.
C23_NoSocketOpenedWhileClosing ==
  [][closing =>
       /\ Len(socks') = Len(socks)
       /\ \A s \in 1..Len(socks) :
            /\ socks'[s].reconnects = socks[s].reconnects
            /\ socks'[s].st = "connecting" => socks[s].st = "connecting"]_vars

\* close() began and waits for the callback queue to drain; the retry
\* timer armed by 'end' before close() fired and reached reconnectBroker.
C23_ReconnectedWhileClosing ==
  \E s \in 1..Len(socks) :
    /\ closing /\ ~closed /\ socks[s].reconnects = 1
    /\ socks[s].st = "ended" /\ ~socks[s].closing

\* C24: the step in which the retry timer of a disconnected, idle connection
\* fires marks the connection closing, removes it from its pool and raises
\* no assertion error; a connection marked closing is never reconnected.
C24_IdleRetryRemoves ==
  [][\A s \in 1..Len(socks) :
       /\ (/\ socks[s].retryTimer /\ ~socks'[s].retryTimer
           /\ ~socks[s].closing /\ socks'[s].closing
           /\ socks'[s].st = socks[s].st /\ closing' = closing
           /\ brokerMetadata' = brokerMetadata)
          => /\ s \notin PoolSocks(IF socks[s].longpolling
                                    THEN longpollingBrokers' ELSE brokers')
             /\ "throw" \notin ev'
       /\ socks[s].closing => socks'[s].reconnects = socks[s].reconnects]_vars

\* The retry timer of an ended, idle connection fired after the close of
\* the other pool's connection to the same address had deleted its pool
\* entry: the assertion of deleteDisconnected failed.
C24_AssertionFailed ==
  \E s, n \in 1..Len(socks) :
    /\ "throw" \in ev /\ uncaught /\ ~closing
    /\ socks[s].st = "ended" /\ socks[s].closing /\ ~socks[s].retryTimer
    /\ ~socks[s].longpolling /\ PoolGet(brokers, socks[s].addr) = NoSock
    /\ socks[n].longpolling /\ socks[n].addr = socks[s].addr
    /\ socks[n].st = "closed" /\ socks[n].error # "none"

\* C25: no step emits brokersChanged synchronously, the completion of
\* sendProduceRequest included; an emission is scheduled for a later tick in
\* exactly the steps that replace a non-empty broker map by a different one.
C25_BrokersChangedDeferred ==
  [][/\ "brokersChanged" \notin ev'
     /\ "brokersChangedScheduled" \in ev'
          <=> (DOMAIN brokerMetadata # {} /\ brokerMetadata' # brokerMetadata)]_vars

\* A produce request was answered with NotLeaderForPartition: its final
\* callback emitted brokersChanged before it called back.
C25_EmittedInProduceCallback ==
  \E k \in 1..Len(calls) :
    /\ calls[k].produce /\ calls[k].phase = "done" /\ calls[k].cbs = 1
    /\ calls[k].result = "NotLeaderForPartition"
    /\ "brokersChanged" \in ev

\* C26: every request other than ApiVersions that a step queues and writes
\* goes to a connection that is connected and has its apiSupport set.
C26_WrittenOnlyWhenReady ==
  [][\A c \in (Len(reqs) + 1)..Len(reqs') :
       reqs'[c].kind # "versions"
       => /\ socks'[reqs'[c].sock].st = "connected"
          /\ socks'[reqs'[c].sock].apiSupport # "unset"]_vars

\* A controller request was queued on a connection that is still
\* connecting and has no apiSupport.
C26_ControllerRequestOnConnecting ==
  \E c \in 1..Len(reqs) :
    /\ reqs[c].kind = "controller" /\ c \in QueueOf(St, reqs[c].sock)
    /\ socks[reqs[c].sock].st = "connecting"
    /\ socks[reqs[c].sock].apiSupport = "unset"

\* C27: the callback of every refreshBrokerMetadata(callback) call has run
\* exactly once, or it has not run yet and is the final callback of the
\* refresh in flight, which runs it when it ends; a callback that has not
\* run and that no refresh holds can never run.
C27_RefreshCallbackOnce ==
  \A i \in DOMAIN refreshCbs :
    /\ refreshCbs[i].cbs <= 1
    /\ refreshCbs[i].cbs = 0 => (refreshCbs[i].held /\ refreshingMetadata)

\* The second call arrived while the refresh of the first was in flight and
\* returned at once; the refresh has ended, the first callback has run, the
\* second has not and nothing holds it.
C27_IgnoredCallNeverAnswered ==
  /\ Len(refreshCbs) = 2 /\ ~refreshingMetadata /\ ~closing
  /\ refreshCbs[1] = [cbs |-> 1, held |-> FALSE]
  /\ refreshCbs[2] = [cbs |-> 0, held |-> FALSE]

\* C28: the waiting flag of a connection is set only while a long-polling
\* request is queued on it, and a long-polling sendRequest is answered with
\* null only while such a request is queued on its connection.
C28_WaitingEndsWithLongPoll ==
  [][/\ \A s \in 1..Len(socks) :
          socks[s].waiting =>
            \E c \in QueueOf(St, s) : reqs[c].kind = "data"
     /\ \A k \in 1..Len(calls) :
          (calls[k].phase = "send" /\ calls'[k].phase = "done"
           /\ calls'[k].result = "null")
          => \E c \in 1..Len(reqs) :
               /\ reqs[c].kind = "data" /\ socks[reqs[c].sock].longpolling
               /\ c \in QueueOf(St, reqs[c].sock)]_vars

\* The long-polling request of the first call ended by its request timer;
\* the connection is still connected and ready, nothing is queued on it and
\* its waiting flag is set: the second long-polling call, whose sendToBroker
\* is due, will complete with null.
C28_WaitingAfterTimeout ==
  \E s \in 1..Len(socks), c \in 1..Len(reqs) :
    /\ Len(calls) = 2 /\ calls[1].longpolling /\ calls[2].longpolling
    /\ reqs[c].kind = "data" /\ reqs[c].owner = 1 /\ reqs[c].sock = s
    /\ reqs[c].tmo = 1 /\ calls[1].result = "timeout"
    /\ calls[2].phase = "send"
    /\ socks[s].waiting /\ isReady(socks[s]) /\ QueueOf(St, s) = {}
====
